---- MODULE Spec2Model ----
(***************************************************************************)
(* The lineage store of the Doubao drawing plug-in (ImageStorage, an       *)
(* sqlite table `images` keyed by id) and the command handlers of          *)
(* DoubaoPlugin that read it and append to it.                             *)
(*                                                                         *)
(* A row of the table is a record; the table is the sequence of its rows   *)
(* in insertion (rowid) order.  The JSON text columns are held decoded:    *)
(* json.dumps of a list or a dict is never the empty text, so the          *)
(* `if result[0] else []` guards of the readers never fire on a row that   *)
(* store_image wrote.  Python's None is the string "None".                 *)
(***************************************************************************)
EXTENDS Integers, Sequences, FiniteSets, TLC

\* ---------------------------------------------------------------- bounds
\* The wall clock int(time.time()) runs over 1..MaxTime.
MaxTime == 2
\* The direct calls of store_image use at most MaxRows different ids.
MaxRows == 3
\* The longest urls list a completion stream delivers in the model.
MaxUrls == 5
\* The image service holds the bytes of at most MaxKeys uploads.
MaxKeys == 2
\* At most MaxCalls calls of _get_authorization_header are kept for comparison.
MaxCalls == 3
\* A completion stream has at most MaxEvents lines.
MaxEvents == 3
MaxTicks == 2
MaxSide == 5
LargeSide == 1024
MaxDownloads == 4

\* ------------------------------------------------------------- constants
\* validate_image_index accepts the indices 1..MAX_INDEX.
MAX_INDEX == 4

None == "None"
\* None where a dict is expected.
NoneDict == [id |-> None]

\* The failure messages of validate_image_index (their texts in English).
MSG_ID_NOT_FOUND == "image id not found"
MSG_NOT_A_NUMBER == "image index must be a number"
MSG_NOT_1_TO_4 == "image index must be a number between 1 and 4"
MSG_OUT_OF_RANGE == "image index out of range"

\* sqlite3.IntegrityError: UNIQUE constraint failed: images.id
IntegrityError == "IntegrityError"

VARIABLES
    images,           \* the rows of table `images`, in insertion order
    now,              \* int(time.time())
    frame,            \* the store_image call that is between its SELECT and its INSERT
    ret,              \* what the last completed operation returned or raised
    conversation_id,  \* DoubaoPlugin.conversation_id
    section_id,       \* DoubaoPlugin.section_id
    reply_id,         \* DoubaoPlugin.reply_id
    handler,          \* the command handler that is waiting for its completion call
    upload,           \* the upload_and_process_image call and the request it waits for
    wire,             \* the requests the upload session has put on the network, in order
    tos,              \* the image service: the keys whose bytes it holds, and which are committed
    completion,       \* the send_request call that is reading its event stream
    signed,           \* the (arguments, result) pairs of the _get_authorization_header calls
    maint,            \* the TokenManager's clock, stamps and lock, and the threads using it
    combine,          \* the last combine_images call: what was downloaded and what it returned
    mask,             \* the last mask creation of _process_inpaint: its arguments and its outcome
    dialogue          \* waiting_for_inpaint, inpaint_prompts, inpaint_images and the last message handled

vars == <<images, now, frame, ret, conversation_id, section_id, reply_id, handler,
          upload, wire, tos, completion, signed, maint, combine, mask, dialogue>>

plugin == <<conversation_id, section_id, reply_id, handler>>

\* The image processor and the two-image inpaint dialogue.
media == <<combine, mask, dialogue>>

\* The upload client, the completion client's stream loop, the signer, the
\* token manager and the image processor.
clients == <<upload, wire, tos, completion, signed, maint, media>>

\* ----------------------------------------------------------- the table
Times == 1..MaxTime

\* Image ids are the decimal strings of clock readings: str(int(time.time())).
Ids == {ToString(t) : t \in Times}

\* The ids of the direct calls.
ApiAllIds == {ToString(k) : k \in 1..MaxRows}

\* urls lists: the n-th list is <<1, .., n>>, url k of one completion.
UrlList(n) == [k \in 1..n |-> k]

HasId(db, img_id) == \E i \in 1..Len(db) : db[i].id = img_id

RowOf(db, img_id) == db[CHOOSE i \in 1..Len(db) : db[i].id = img_id]

IdsOf(db) == {db[i].id : i \in 1..Len(db)}

\* SELECT edit_chain, operation_history FROM images WHERE id = parent_id,
\* and the two lists store_image starts from.
SelectLineage(db, parent_id) ==
    IF parent_id # None /\ HasId(db, parent_id)
    THEN [found |-> TRUE,
          edit_chain |-> RowOf(db, parent_id).edit_chain,
          operation_history |-> RowOf(db, parent_id).operation_history]
    ELSE [found |-> FALSE, edit_chain |-> <<>>, operation_history |-> <<>>]

\* image_info.get("create_time", int(time.time())); the key is absent (<<>>)
\* or holds one value (<<t>>).
CreateTime(image_info, clock) ==
    IF image_info.create_time = <<>> THEN clock ELSE image_info.create_time[1]

\* HistoryEntry stamping the entry with the clock although the caller gave a
\* create_time.
HistoryEntry_ClockStamp(img_id, image_info, clock) ==
    [id |-> img_id,
     type |-> image_info.type,
     params |-> image_info.operation_params,
     timestamp |-> clock]

\* The entry store_image appends to operation_history.
HistoryEntry(img_id, image_info, clock) ==
    [id |-> img_id,
     type |-> image_info.type,
     params |-> image_info.operation_params,
     timestamp |-> CreateTime(image_info, clock)]

\* NewRow appending the new id, not the parent's, to the chain.
NewRow_AppendsOwnId(img_id, image_info, lineage, clock) ==
    [id |-> img_id,
     urls |-> image_info.urls,
     operation_type |-> image_info.type,
     operation_params |-> image_info.operation_params,
     parent_id |-> image_info.parent_id,
     edit_chain |-> IF image_info.parent_id # None
                    THEN Append(lineage.edit_chain, img_id)
                    ELSE lineage.edit_chain,
     operation_history |-> Append(lineage.operation_history,
                                  HistoryEntry(img_id, image_info, clock)),
     created_at |-> CreateTime(image_info, clock)]

\* NewRow appending the parent id only when the parent row was found.
NewRow_AppendsIfFound(img_id, image_info, lineage, clock) ==
    [id |-> img_id,
     urls |-> image_info.urls,
     operation_type |-> image_info.type,
     operation_params |-> image_info.operation_params,
     parent_id |-> image_info.parent_id,
     edit_chain |-> IF lineage.found
                    THEN Append(lineage.edit_chain, image_info.parent_id)
                    ELSE lineage.edit_chain,
     operation_history |-> Append(lineage.operation_history,
                                  HistoryEntry(img_id, image_info, clock)),
     created_at |-> CreateTime(image_info, clock)]

\* The row store_image inserts, from the lineage it read.
NewRow(img_id, image_info, lineage, clock) ==
    [id |-> img_id,
     urls |-> image_info.urls,
     operation_type |-> image_info.type,
     operation_params |-> image_info.operation_params,
     parent_id |-> image_info.parent_id,
     edit_chain |-> IF image_info.parent_id # None
                    THEN Append(lineage.edit_chain, image_info.parent_id)
                    ELSE lineage.edit_chain,
     operation_history |-> Append(lineage.operation_history,
                                  HistoryEntry(img_id, image_info, clock)),
     created_at |-> CreateTime(image_info, clock)]

\* InsertRow as INSERT OR REPLACE: a row with the same id is overwritten.
InsertRow_Replace(db, row) ==
    IF HasId(db, row.id)
    THEN [db |-> [i \in 1..Len(db) |-> IF db[i].id = row.id THEN row ELSE db[i]],
          raised |-> None]
    ELSE [db |-> Append(db, row), raised |-> None]

\* InsertRow leaving the refused row in the table.
InsertRow_KeepsRefusedRow(db, row) ==
    IF HasId(db, row.id)
    THEN [db |-> Append(db, row), raised |-> IntegrityError]
    ELSE [db |-> Append(db, row), raised |-> None]

\* INSERT INTO images ... ; commit.  id is the PRIMARY KEY: a second row with
\* the same id is refused and the table is left as it was.
InsertRow(db, row) ==
    IF HasId(db, row.id)
    THEN [db |-> db, raised |-> IntegrityError]
    ELSE [db |-> Append(db, row), raised |-> None]

\* get_image: the row as a dict, or None.
get_image(db, img_id) ==
    IF HasId(db, img_id)
    THEN LET r == RowOf(db, img_id)
         IN [id |-> r.id, urls |-> r.urls, type |-> r.operation_type,
             operation_params |-> r.operation_params, parent_id |-> r.parent_id,
             edit_chain |-> r.edit_chain,
             operation_history |-> r.operation_history,
             create_time |-> r.created_at]
    ELSE NoneDict

\* An index argument: an int, or a value that is not an int.
IntIndex(k) == [isint |-> TRUE, val |-> k]
NotAnInt == [isint |-> FALSE, val |-> 0]

\* validate_image_index without the upper limit of 4.
validate_image_index_NoUpperLimit(db, img_id, index) ==
    LET image_data == get_image(db, img_id) IN
    IF image_data = NoneDict THEN <<FALSE, MSG_ID_NOT_FOUND>>
    ELSE IF ~index.isint THEN <<FALSE, MSG_NOT_A_NUMBER>>
    ELSE IF index.val < 1 THEN <<FALSE, MSG_NOT_1_TO_4>>
    ELSE IF image_data.urls = <<>> \/ Len(image_data.urls) < index.val
         THEN <<FALSE, MSG_OUT_OF_RANGE>>
    ELSE <<TRUE, None>>

\* validate_image_index comparing the index with len(urls) + 1.
validate_image_index_OffByOne(db, img_id, index) ==
    LET image_data == get_image(db, img_id) IN
    IF image_data = NoneDict THEN <<FALSE, MSG_ID_NOT_FOUND>>
    ELSE IF ~index.isint THEN <<FALSE, MSG_NOT_A_NUMBER>>
    ELSE IF index.val < 1 \/ index.val > MAX_INDEX THEN <<FALSE, MSG_NOT_1_TO_4>>
    ELSE IF image_data.urls = <<>> \/ Len(image_data.urls) + 1 < index.val
         THEN <<FALSE, MSG_OUT_OF_RANGE>>
    ELSE <<TRUE, None>>

\* validate_image_index: (ok, message).
validate_image_index(db, img_id, index) ==
    LET image_data == get_image(db, img_id) IN
    IF image_data = NoneDict THEN <<FALSE, MSG_ID_NOT_FOUND>>
    ELSE IF ~index.isint THEN <<FALSE, MSG_NOT_A_NUMBER>>
    ELSE IF index.val < 1 \/ index.val > MAX_INDEX THEN <<FALSE, MSG_NOT_1_TO_4>>
    ELSE IF image_data.urls = <<>> \/ Len(image_data.urls) < index.val
         THEN <<FALSE, MSG_OUT_OF_RANGE>>
    ELSE <<TRUE, None>>

\* The message of validate_image_index's except branch.
MSG_VALIDATE_ERROR == "error while validating the image index"

\* sqlite3.OperationalError: unable to open database file / disk I/O error.
OperationalError == "OperationalError"

\* How the database behaves during one call: "ok", "connect" (sqlite3.connect
\* raises) or "execute" (the SELECT raises).
DbFaults == {"connect", "execute"}

\* One call of get_image: [raised, value].  sqlite3.connect stands before the
\* try block, so its exception leaves get_image; an exception of the SELECT
\* is caught and None is returned.
get_image_call(db, img_id, fault) ==
    IF fault = "connect" THEN [raised |-> OperationalError, value |-> NoneDict]
    ELSE IF fault = "execute" THEN [raised |-> None, value |-> NoneDict]
    ELSE [raised |-> None, value |-> get_image(db, img_id)]

\* validate_image_index without its try/except.
validate_image_index_call_NoExcept(db, img_id, index, fault) ==
    LET g == get_image_call(db, img_id, fault) IN
    IF g.raised # None THEN [raised |-> g.raised, result |-> <<>>]
    ELSE IF g.value = NoneDict
         THEN [raised |-> None, result |-> <<FALSE, MSG_ID_NOT_FOUND>>]
    ELSE [raised |-> None, result |-> validate_image_index(db, img_id, index)]

\* One call of validate_image_index: [raised, result].  Whatever is raised
\* inside is caught and turned into (False, message).
validate_image_index_call(db, img_id, index, fault) ==
    LET g == get_image_call(db, img_id, fault) IN
    IF g.raised # None
    THEN [raised |-> None, result |-> <<FALSE, MSG_VALIDATE_ERROR>>]
    ELSE IF g.value = NoneDict
         THEN [raised |-> None, result |-> <<FALSE, MSG_ID_NOT_FOUND>>]
    ELSE [raised |-> None, result |-> validate_image_index(db, img_id, index)]

\* The dict get_latest_image builds from a row.
LatestDict(r) ==
    [id |-> r.id, urls |-> r.urls, type |-> r.operation_type,
     operation_params |-> r.operation_params, parent_id |-> r.parent_id,
     created_at |-> r.created_at]

\* get_latest_image taking the row inserted last.
get_latest_image_LastInserted(db) ==
    IF db = <<>> THEN {NoneDict} ELSE {LatestDict(db[Len(db)])}

\* SELECT ... ORDER BY created_at DESC LIMIT 1: the rows that can come first
\* (SQL leaves the order among equal created_at open).
get_latest_image(db) ==
    IF db = <<>> THEN {NoneDict}
    ELSE {LatestDict(db[i]) : i \in
            {j \in 1..Len(db) : \A k \in 1..Len(db) : db[k].created_at <= db[j].created_at}}

\* ------------------------------------------- ImageStorage, called directly
\* No call in flight.
Idle == [pc |-> "idle"]

NoRet == [op |-> "none"]

\* The operation_params dicts the callers pass: the continuation identifiers.
Params(conv, sec, rep) ==
    [conversation_id |-> conv, section_id |-> sec, reply_id |-> rep]

\* The image_info dicts of the direct calls: a generate result (create_time
\* left to store_image), a record without urls, and, for every id, a child of
\* that id with a create_time of its own.
ApiInfos ==
    {[urls |-> UrlList(2), type |-> "generate",
      operation_params |-> Params("c1", "s1", "r1"),
      parent_id |-> None, create_time |-> <<>>],
     [urls |-> UrlList(0), type |-> "reference",
      operation_params |-> Params(None, None, None),
      parent_id |-> None, create_time |-> <<MaxTime>>]}
    \cup
    {[urls |-> UrlList(1), type |-> "edit",
      operation_params |-> Params("c1", "s1", "r2"),
      parent_id |-> p, create_time |-> <<MaxTime>>] : p \in ApiAllIds}

\* The ids a direct call names: one that is stored, or one that is not (ids
\* are opaque to the store, so which unused one makes no difference).
ApiIds(db) == IdsOf(db) \cup (IF Len(db) < MaxRows THEN {ToString(Len(db) + 1)} ELSE {})

\* What store_image reports: nothing on success, the exception it re-raises.
StoreRet(img_id, image_info, lineage, ins) ==
    [op |-> "store_image", img_id |-> img_id, parent_id |-> image_info.parent_id,
     found |-> lineage.found, raised |-> ins.raised]

\* store_image up to and including its SELECT of the parent.
StoreImageSelect(img_id, image_info) ==
    /\ frame = Idle
    /\ frame' = [pc |-> "insert", img_id |-> img_id, image_info |-> image_info,
                 lineage |-> SelectLineage(images, image_info.parent_id)]
    /\ ret' = NoRet
    /\ UNCHANGED <<images, now, plugin, clients>>

\* store_image from the appends to the commit, or the exception.
StoreImageInsert ==
    /\ frame.pc = "insert"
    /\ LET ins == InsertRow(images, NewRow(frame.img_id, frame.image_info,
                                           frame.lineage, now))
       IN /\ images' = ins.db
          /\ ret' = StoreRet(frame.img_id, frame.image_info, frame.lineage, ins)
    /\ frame' = Idle
    /\ UNCHANGED <<now, plugin, clients>>

\* A whole store_image call of another thread, between the SELECT and the
\* INSERT of the call in flight (the SELECT runs outside any transaction).
OtherStoreImage(img_id, image_info) ==
    /\ frame.pc = "insert"
    /\ images' = InsertRow(images,
                    NewRow(img_id, image_info,
                           SelectLineage(images, image_info.parent_id), now)).db
    /\ UNCHANGED <<now, frame, ret, plugin, clients>>

GetImage(img_id) ==
    /\ frame = Idle
    /\ ret' = [op |-> "get_image", img_id |-> img_id, result |-> get_image(images, img_id)]
    /\ UNCHANGED <<images, now, frame, plugin, clients>>

IndexInputs == {IntIndex(k) : k \in 0..(MaxUrls + 1)} \cup {NotAnInt}

ValidateImageIndex(img_id, index) ==
    /\ frame = Idle
    /\ ret' = [op |-> "validate_image_index", img_id |-> img_id, index |-> index,
               result |-> validate_image_index(images, img_id, index)]
    /\ UNCHANGED <<images, now, frame, plugin, clients>>

\* validate_image_index while the database cannot be read.
ValidateImageIndexDbFault(img_id, index, fault) ==
    /\ frame = Idle
    /\ LET v == validate_image_index_call(images, img_id, index, fault)
       IN ret' = [op |-> "validate_image_index (db fault)", fault |-> fault,
                  raised |-> v.raised, result |-> v.result]
    /\ UNCHANGED <<images, now, frame, plugin, clients>>

GetLatestImage ==
    /\ frame = Idle
    /\ \E d \in get_latest_image(images) :
          ret' = [op |-> "get_latest_image", result |-> d]
    /\ UNCHANGED <<images, now, frame, plugin, clients>>

\* ------------------------------------------------------ the token manager
\* The three maintenance actions of TokenManager.
MaintenanceActions == {"refresh_token", "check_heartbeat", "check_session_refresh"}

\* _refresh_interval, _heartbeat_interval, _session_refresh_interval (seconds).
REFRESH_INTERVAL == 1800
HEARTBEAT_INTERVAL == 300
SESSION_REFRESH_INTERVAL == 7200

\* time.time() when the plugin starts: seconds since the epoch, more than
\* any of the intervals.
StartTime == 7200

\* The threads that use the token manager: the heartbeat thread of the plugin
\* and a thread that calls the methods of TokenManager directly.
Worker == "heartbeat_worker"
Caller == "caller"
MaintThreads == {Worker, Caller}

\* TokenManager.__init__, and the heartbeat thread as _start_heartbeat_thread
\* starts it.
MaintInit ==
    [clock |-> StartTime,
     ticks |-> 0,
     last |-> [refresh_token |-> 0, check_heartbeat |-> 0, check_session_refresh |-> 0],
     lock |-> "free",
     th |-> [heartbeat_worker |-> [pc |-> "while", action |-> None, current_time |-> 0],
             caller |-> [pc |-> "idle", action |-> None, current_time |-> 0]],
     stop_heartbeat |-> FALSE,
     traffic |-> "none",
     returned |-> [thread |-> None, action |-> None, called |-> FALSE, result |-> None]]

\* No call of the image processor has been made yet.
NotCalled == [called |-> FALSE]

\* The users whose messages the plugin handles.
Users == {"u1", "u2"}

\* self.waiting_for_reference, self.waiting_for_inpaint, self.inpaint_prompts
\* and self.inpaint_images are empty dicts after __init__; `last` is the
\* message handled last and what the handler took it for.
DialogueInit ==
    [waiting_for_reference |-> {},
     waiting_for_inpaint |-> {},
     inpaint_prompts |-> [u \in Users |-> None],
     inpaint_images |-> [u \in Users |-> None],
     last |-> [event |-> "none"]]

Init ==
    /\ images = <<>>
    /\ now = 1
    /\ frame = Idle
    /\ ret = NoRet
    /\ conversation_id = None
    /\ section_id = None
    /\ reply_id = None
    /\ handler = Idle
    /\ upload = Idle
    /\ wire = <<>>
    /\ tos = {}
    /\ completion = Idle
    /\ signed = {}
    /\ maint = MaintInit
    /\ combine = NotCalled
    /\ mask = NotCalled
    /\ dialogue = DialogueInit

NextStore ==
    \/ \E img_id \in ApiIds(images), image_info \in ApiInfos :
          StoreImageSelect(img_id, image_info)
    \/ StoreImageInsert
    \/ \E img_id \in ApiIds(images), image_info \in ApiInfos :
          OtherStoreImage(img_id, image_info)
    \/ \E img_id \in ApiAllIds : GetImage(img_id)
    \/ \E img_id \in ApiAllIds, index \in IndexInputs : ValidateImageIndex(img_id, index)
    \/ \E img_id \in ApiAllIds, index \in {IntIndex(1), NotAnInt}, fault \in DbFaults :
          ValidateImageIndexDbFault(img_id, index, fault)
    \/ GetLatestImage

SpecStore == Init /\ [][NextStore]_vars

\* --------------------------------------------- the completion client
\* What send_request has accumulated when the stream ends.
Stream(image_urls, conv, sec, rep) ==
    [image_urls |-> image_urls, conversation_id |-> conv, section_id |-> sec,
     reply_id |-> rep]

\* The streams of the model: no image, one image, MaxUrls images.
Streams ==
    {Stream(UrlList(0), "c1", "s1", "r1"),
     Stream(UrlList(1), "c1", "s1", "r1"),
     Stream(UrlList(MaxUrls), "c1", "s1", "r2")}

\* send_request returning a result although no url was found.
send_request_return_NoUrlCheck(stream) ==
    [urls |-> stream.image_urls, conversation_id |-> stream.conversation_id,
     section_id |-> stream.section_id, reply_id |-> stream.reply_id]

\* The end of send_request: a result when urls were found, None otherwise.
send_request_return(stream) ==
    IF stream.image_urls # <<>>
    THEN [urls |-> stream.image_urls, conversation_id |-> stream.conversation_id,
          section_id |-> stream.section_id, reply_id |-> stream.reply_id]
    ELSE NoneDict

\* --------------------------------------------------- command handlers
\* The replies of the handlers (their texts in English).
REPLY_IMAGE == "IMAGE"
REPLY_EDIT_FAILED == "ERROR: image edit failed"
REPLY_OUTPAINT_FAILED == "ERROR: image outpaint failed"
REPLY_REGENERATE_FAILED == "ERROR: image regeneration failed"
REPLY_GENERATE_FAILED == "ERROR: image generation failed"
REPLY_COMMAND_FAILED == "ERROR: command processing failed"
REPLY_MISSING_INFO == "ERROR: required image information is missing"
REPLY_MISSING_SESSION == "ERROR: required session information is missing"
REPLY_IMAGE_FAILED == "ERROR: image handler got no result"
REPLY_PROCESS_FAILED == "ERROR: image handler failed"
REPLY_KOUTU_SAVE_FAILED == "ERROR: saving the image information failed"
REPLY_UPLOAD_FAILED == "ERROR: image upload failed"

IndexError == "IndexError"

\* Python's `not x` for the identifiers: None and "" are false.
Falsy(x) == x = None \/ x = ""

\* urls[index - 1] raises IndexError outside -len .. len - 1.
PyIndexable(urls, index) == (index - 1) < Len(urls) /\ (index - 1) >= -Len(urls)

Session == Params(conversation_id, section_id, reply_id)

\* A handler ends without having sent a completion request.
Refused(op, reply, raised) ==
    [refused |-> TRUE,
     ret |-> [op |-> op, sent |-> FALSE, completed |-> FALSE, reply |-> reply,
              raised |-> raised]]

\* A handler has sent its completion request and waits for the stream.
Awaiting(op, image_data) ==
    [refused |-> FALSE,
     frame |-> [pc |-> "awaiting", op |-> op, image_data |-> image_data]]

\* What a handler leaves behind after its completion call returned.
Done(db, sess, op, completed, reply, raised) ==
    [images |-> db, session |-> sess,
     ret |-> [op |-> op, sent |-> TRUE, completed |-> completed, reply |-> reply,
              raised |-> raised]]

\* new_img_id = str(int(time.time())) and the store_image call of a handler.
\* The parent row was read by the handler before the request was sent and
\* rows never change, so store_image's SELECT finds it whenever it runs.
StoreNow(db, clock, type, urls, operation_params, parent_id) ==
    LET image_info == [urls |-> urls, type |-> type,
                       operation_params |-> operation_params,
                       parent_id |-> parent_id, create_time |-> <<clock>>]
    IN InsertRow(db, NewRow(ToString(clock), image_info,
                            SelectLineage(db, parent_id), clock))

\* The edit command up to send_request.
EditSend(db, img_id, arg) ==
    LET image_data == get_image(db, img_id)
        is_first_edit == Len(image_data.urls) > 1
        index == IF is_first_edit THEN arg.val ELSE 1
        valid == validate_image_index(db, img_id, arg)
        params == image_data.operation_params
    IN IF image_data = NoneDict THEN Refused("edit", MSG_ID_NOT_FOUND, None)
       ELSE IF is_first_edit /\ ~arg.isint
            THEN Refused("edit", MSG_NOT_1_TO_4, "ValueError")
       ELSE IF is_first_edit /\ ~valid[1] THEN Refused("edit", valid[2], None)
       ELSE IF ~PyIndexable(image_data.urls, index)
            THEN Refused("edit", REPLY_EDIT_FAILED, IndexError)
       ELSE IF Falsy(params.conversation_id) \/ Falsy(params.section_id)
            THEN Refused("edit", REPLY_MISSING_INFO, None)
       ELSE Awaiting("edit", image_data)

\* The edit command after send_request.
EditReceive(db, sess, clock, fr, result) ==
    LET new_img_id == ToString(clock)
        parent == fr.image_data
        operation_params == Params(parent.operation_params.conversation_id,
                                   parent.operation_params.section_id,
                                   result.reply_id)
        ins == StoreNow(db, clock, "edit", result.urls, operation_params, parent.id)
    IN IF result = NoneDict
       THEN Done(db, sess, "edit", FALSE, REPLY_EDIT_FAILED, None)
       ELSE IF result.urls = <<>>
       THEN Done(db, sess, "edit", TRUE, REPLY_EDIT_FAILED, IndexError)
       ELSE IF ins.raised # None
       THEN Done(db, sess, "edit", TRUE, REPLY_EDIT_FAILED, ins.raised)
       ELSE Done(ins.db, sess, "edit", TRUE, REPLY_IMAGE, None)

\* The outpaint command up to send_request.
OutpaintSend(db, img_id, arg) ==
    LET image_data == get_image(db, img_id)
        is_first_outpaint == Len(image_data.urls) > 1
        index == IF is_first_outpaint THEN arg ELSE IntIndex(1)
        valid == validate_image_index(db, img_id, index)
        params == image_data.operation_params
    IN IF image_data = NoneDict THEN Refused("outpaint", MSG_ID_NOT_FOUND, None)
       ELSE IF is_first_outpaint /\ ~arg.isint
            THEN Refused("outpaint", MSG_NOT_1_TO_4, "ValueError")
       ELSE IF ~valid[1] THEN Refused("outpaint", valid[2], None)
       ELSE IF ~PyIndexable(image_data.urls, index.val)
            THEN Refused("outpaint", REPLY_COMMAND_FAILED, IndexError)
       ELSE IF Falsy(params.conversation_id) \/ Falsy(params.section_id)
            THEN Refused("outpaint", REPLY_MISSING_INFO, None)
       ELSE Awaiting("outpaint", image_data)

\* The outpaint command after send_request.
OutpaintReceive(db, sess, clock, fr, result) ==
    LET new_img_id == ToString(clock)
        parent == fr.image_data
        operation_params == Params(parent.operation_params.conversation_id,
                                   parent.operation_params.section_id,
                                   result.reply_id)
        ins == StoreNow(db, clock, "outpaint", result.urls, operation_params, parent.id)
    IN IF result = NoneDict
       THEN Done(db, sess, "outpaint", FALSE, REPLY_OUTPAINT_FAILED, None)
       ELSE IF result.urls = <<>>
       THEN Done(db, sess, "outpaint", TRUE, REPLY_OUTPAINT_FAILED, IndexError)
       ELSE IF ins.raised # None
       THEN Done(db, sess, "outpaint", TRUE, REPLY_OUTPAINT_FAILED, ins.raised)
       ELSE Done(ins.db, sess, "outpaint", TRUE, REPLY_IMAGE, None)

\* The regenerate command sending without the reply_id of the parent.
RegenerateSend_NoReplyCheck(db, img_id) ==
    LET image_data == get_image(db, img_id)
    IN IF image_data = NoneDict THEN Refused("regenerate", MSG_ID_NOT_FOUND, None)
       ELSE Awaiting("regenerate", image_data)

\* The regenerate command ("r") and regenerate_image up to send_request.
RegenerateSend(db, img_id) ==
    LET image_data == get_image(db, img_id)
    IN IF image_data = NoneDict THEN Refused("regenerate", MSG_ID_NOT_FOUND, None)
       ELSE IF Falsy(image_data.operation_params.reply_id)
            THEN Refused("regenerate", REPLY_MISSING_SESSION, None)
       ELSE Awaiting("regenerate", image_data)

\* regenerate_image after send_request, and the reply of the command.
RegenerateReceive(db, sess, clock, fr, result) ==
    LET new_img_id == ToString(clock)
        parent == fr.image_data
        operation_type == parent.type
        new_operation_params == Params(parent.operation_params.conversation_id,
                                       parent.operation_params.section_id,
                                       result.reply_id)
        urls == IF operation_type \in {"outpaint", "edit"}
                THEN SubSeq(result.urls, 1, IF Len(result.urls) > 1 THEN 1 ELSE Len(result.urls))
                ELSE result.urls
        ins == StoreNow(db, clock, operation_type, urls, new_operation_params, parent.id)
    IN IF result = NoneDict
       THEN Done(db, sess, "regenerate", FALSE, REPLY_REGENERATE_FAILED, None)
       ELSE IF ins.raised # None
       THEN Done(db, sess, "regenerate", TRUE, REPLY_REGENERATE_FAILED, ins.raised)
       ELSE IF urls = <<>>
       THEN Done(ins.db, sess, "regenerate", TRUE, REPLY_REGENERATE_FAILED, None)
       ELSE Done(ins.db, sess, "regenerate", TRUE, REPLY_IMAGE, None)

\* The draw command up to send_request.
GenerateSend == Awaiting("generate", NoneDict)

\* The draw command after send_request.
GenerateReceive(db, sess, clock, fr, result) ==
    LET img_id == ToString(clock)
        sess1 == IF Falsy(sess.conversation_id)
                 THEN Params(result.conversation_id, result.section_id, result.reply_id)
                 ELSE sess
        ins == StoreNow(db, clock, "generate", result.urls, sess1, None)
    IN IF result = NoneDict
       THEN Done(db, sess, "generate", FALSE, REPLY_GENERATE_FAILED, None)
       ELSE IF result.urls = <<>>
       THEN Done(db, sess1, "generate", TRUE, REPLY_GENERATE_FAILED, IndexError)
       ELSE IF ins.raised # None
       THEN Done(db, sess1, "generate", TRUE, REPLY_GENERATE_FAILED, ins.raised)
       ELSE Done(ins.db, sess1, "generate", TRUE, REPLY_IMAGE, None)

\* A reference-image or inpaint message up to send_request: the picture is
\* decoded and uploaded, no stored record is read.  (_process_change_background
\* and _process_change_subject repeat the code of _process_inpaint.)
ImageSend(op) == Awaiting(op, NoneDict)

\* _process_image and _process_inpaint after send_request.
ImageReceive(db, sess, clock, fr, result) ==
    LET sess1 == Params(IF Falsy(result.conversation_id) THEN sess.conversation_id
                        ELSE result.conversation_id,
                        IF Falsy(result.section_id) THEN sess.section_id
                        ELSE result.section_id,
                        sess.reply_id)
        operation_params == Params(sess1.conversation_id, sess1.section_id,
                                   result.reply_id)
        ins == StoreNow(db, clock, fr.op, result.urls, operation_params, None)
    IN IF result = NoneDict
       THEN Done(db, sess, fr.op, FALSE, REPLY_IMAGE_FAILED, None)
       ELSE IF result.urls = <<>>
       THEN Done(db, sess1, fr.op, TRUE, REPLY_PROCESS_FAILED, IndexError)
       ELSE IF ins.raised # None
       THEN Done(db, sess1, fr.op, TRUE, REPLY_PROCESS_FAILED, ins.raised)
       ELSE Done(ins.db, sess1, fr.op, TRUE, REPLY_IMAGE, None)

\* The index arguments of the commands: not a number, below the range, the
\* two ends of the range and the index after the first, just above the range,
\* and the longest urls list.
CommandArgs ==
    {NotAnInt} \cup {IntIndex(k) : k \in {0, 1, 2, MAX_INDEX, MAX_INDEX + 1, MaxUrls}}

\* A command: the handler it selects and its arguments.
Command(op, img_id, arg) == [op |-> op, img_id |-> img_id, arg |-> arg]

Commands ==
    {Command(op, None, NotAnInt) : op \in {"generate", "reference", "inpaint"}}
    \cup {Command("regenerate", i, NotAnInt) : i \in Ids}
    \cup {Command(op, i, a) : op \in {"edit", "outpaint"}, i \in Ids, a \in CommandArgs}

\* The commands of another thread that can get as far as send_request: a
\* refused command leaves no trace, and the index of an accepted one only
\* selects the url that is sent, so index 1 stands for every accepted index.
ConcurrentCommands ==
    {cmd \in Commands : cmd.arg \in {NotAnInt, IntIndex(1)}}

SendOf(db, cmd) ==
    CASE cmd.op = "edit" -> EditSend(db, cmd.img_id, cmd.arg)
      [] cmd.op = "outpaint" -> OutpaintSend(db, cmd.img_id, cmd.arg)
      [] cmd.op = "regenerate" -> RegenerateSend(db, cmd.img_id)
      [] cmd.op = "generate" -> GenerateSend
      [] cmd.op \in {"reference", "inpaint"} -> ImageSend(cmd.op)

ReceiveOf(db, sess, clock, fr, result) ==
    CASE fr.op = "edit" -> EditReceive(db, sess, clock, fr, result)
      [] fr.op = "outpaint" -> OutpaintReceive(db, sess, clock, fr, result)
      [] fr.op = "regenerate" -> RegenerateReceive(db, sess, clock, fr, result)
      [] fr.op = "generate" -> GenerateReceive(db, sess, clock, fr, result)
      [] fr.op \in {"reference", "inpaint"} -> ImageReceive(db, sess, clock, fr, result)

\* A handler runs up to its send_request call, or ends with an error reply.
HandlerSends(cmd) ==
    /\ handler = Idle
    /\ LET s == SendOf(images, cmd)
       IN IF s.refused
          THEN ret' = s.ret /\ handler' = Idle
          ELSE ret' = NoRet /\ handler' = s.frame
    /\ UNCHANGED <<images, now, frame, conversation_id, section_id, reply_id, clients>>

Generate == HandlerSends(Command("generate", None, NotAnInt))

Edit(img_id, arg) == HandlerSends(Command("edit", img_id, arg))

Outpaint(img_id, arg) == HandlerSends(Command("outpaint", img_id, arg))

Regenerate(img_id) == HandlerSends(Command("regenerate", img_id, NotAnInt))

Reference == HandlerSends(Command("reference", None, NotAnInt))

Inpaint == HandlerSends(Command("inpaint", None, NotAnInt))

\* send_request returns to the waiting handler, which stores and replies.
CompletionReturns(stream) ==
    /\ handler.pc = "awaiting"
    /\ LET d == ReceiveOf(images, Session, now, handler, send_request_return(stream))
       IN /\ images' = d.images
          /\ conversation_id' = d.session.conversation_id
          /\ section_id' = d.session.section_id
          /\ reply_id' = d.session.reply_id
          /\ ret' = d.ret
    /\ handler' = Idle
    /\ UNCHANGED <<now, frame, clients>>

\* A handler of another thread (another chat session) runs from its command
\* to its reply while the first one waits for its stream.
ConcurrentHandler(cmd, stream) ==
    /\ handler.pc = "awaiting"
    /\ LET s == SendOf(images, cmd)
       IN /\ ~s.refused
          /\ LET d == ReceiveOf(images, Session, now, s.frame, send_request_return(stream))
             IN /\ images' = d.images
                /\ conversation_id' = d.session.conversation_id
                /\ section_id' = d.session.section_id
                /\ reply_id' = d.session.reply_id
    /\ UNCHANGED <<now, frame, ret, handler, clients>>

\* _process_koutu once the upload has returned both urls: the record is
\* stored inside its own try block.
Koutu ==
    /\ handler = Idle
    /\ LET ins == StoreNow(images, now, "koutu", UrlList(2),
                           Params(conversation_id, section_id, None), None)
       IN /\ images' = ins.db
          /\ ret' = [op |-> "koutu", sent |-> FALSE, completed |-> TRUE,
                     reply |-> IF ins.raised # None THEN REPLY_KOUTU_SAVE_FAILED
                               ELSE REPLY_IMAGE,
                     raised |-> ins.raised]
    /\ UNCHANGED <<now, frame, plugin, clients>>

\* _process_image, _process_inpaint and _process_koutu when
\* upload_and_process_image returns a failure: the error reply, and return.
UploadOps == {"reference", "inpaint", "koutu"}

UploadFails(op) ==
    /\ handler = Idle
    /\ ret' = Refused(op, REPLY_UPLOAD_FAILED, None).ret
    /\ UNCHANGED <<images, now, frame, plugin, clients>>

\* The enlarge command: validate, then urls[index - 1].
Enlarge(img_id, arg) ==
    /\ handler = Idle
    /\ LET valid == validate_image_index(images, img_id, arg)
           image_data == get_image(images, img_id)
       IN ret' = IF ~arg.isint
                 THEN Refused("enlarge", MSG_NOT_1_TO_4, "ValueError").ret
                 ELSE IF ~valid[1] THEN Refused("enlarge", valid[2], None).ret
                 ELSE IF ~PyIndexable(image_data.urls, arg.val)
                 THEN Refused("enlarge", REPLY_COMMAND_FAILED, IndexError).ret
                 ELSE Refused("enlarge", REPLY_IMAGE, None).ret
    /\ UNCHANGED <<images, now, frame, plugin, clients>>

\* int(time.time()) moves on.
Tick ==
    /\ now < MaxTime
    /\ now' = now + 1
    /\ UNCHANGED <<images, frame, ret, plugin, clients>>

\* The process restarts: DoubaoPlugin.__init__ resumes the session from the
\* latest stored record; a handler that was waiting is gone.
Restart ==
    /\ \E d \in get_latest_image(images) :
          /\ conversation_id' = IF d = NoneDict THEN None ELSE d.operation_params.conversation_id
          /\ section_id' = IF d = NoneDict THEN None ELSE d.operation_params.section_id
          /\ reply_id' = IF d = NoneDict THEN None ELSE d.operation_params.reply_id
          /\ ret' = [op |-> "restart"]
    /\ handler' = Idle
    /\ UNCHANGED <<images, now, frame, clients>>

Next ==
    \/ Generate
    \/ \E img_id \in Ids, arg \in CommandArgs : Edit(img_id, arg)
    \/ \E img_id \in Ids, arg \in CommandArgs : Outpaint(img_id, arg)
    \/ \E img_id \in Ids : Regenerate(img_id)
    \/ Reference
    \/ Inpaint
    \/ Koutu
    \/ \E op \in UploadOps : UploadFails(op)
    \/ \E stream \in Streams : CompletionReturns(stream)
    \/ \E cmd \in ConcurrentCommands, stream \in Streams : ConcurrentHandler(cmd, stream)
    \/ \E img_id \in Ids, arg \in CommandArgs : Enlarge(img_id, arg)
    \/ Tick
    \/ Restart

Spec == Init /\ [][Next]_vars

\* ------------------------------------------------- the store's lineage
\* The history entry a row stands for: its own id, type, params and time.
OwnEntry(r) ==
    [id |-> r.id, type |-> r.operation_type, params |-> r.operation_params,
     timestamp |-> r.created_at]

StoredOk == ret.op = "store_image" /\ ret.raised = None

\* C1: a record stored with a parent_id that named a stored record P has
\* edit_chain = P.edit_chain + [P.id]; a record stored without parent_id has
\* edit_chain = [].  (Every row is at one moment the row of the last call, and
\* rows never change afterwards.)
C1_EditChainOfParent ==
    /\ \A i \in 1..Len(images) :
          images[i].parent_id = None => images[i].edit_chain = <<>>
    /\ (StoredOk /\ ret.found) =>
          RowOf(images, ret.img_id).edit_chain =
              Append(RowOf(images, ret.parent_id).edit_chain, ret.parent_id)

\* A grandchild has just been stored: its parent has a parent of its own.
C1_Witness ==
    /\ StoredOk /\ ret.found
    /\ RowOf(images, ret.parent_id).edit_chain # <<>>
    /\ Len(RowOf(images, ret.img_id).edit_chain) >= 2

C2_HistoryState ==
    StoredOk =>
        LET r == RowOf(images, ret.img_id) IN
        IF ret.found
        THEN r.operation_history =
                 Append(RowOf(images, ret.parent_id).operation_history, OwnEntry(r))
        ELSE r.operation_history = <<OwnEntry(r)>>

C2_HistoryKept ==
    \A i \in 1..Len(images) :
        /\ i <= Len(images')
        /\ images'[i].id = images[i].id
        /\ images'[i].operation_history = images[i].operation_history

\* C2: a stored record's operation_history is its parent's history plus its
\* own {id, type, params, timestamp} entry, or that entry alone when no parent
\* row was found; and no step shortens or rewrites the history of a stored row.
C2_OperationHistory == [](C2_HistoryState) /\ [][C2_HistoryKept]_vars

\* A record with a create_time of its own was stored under a parent that has
\* a history of two entries.
C2_Witness ==
    /\ StoredOk /\ ret.found
    /\ Len(RowOf(images, ret.img_id).operation_history) = 3
    /\ RowOf(images, ret.img_id).created_at # now

\* C3: store_image with an id that is already stored raises the duplicate-id
\* error and leaves the record stored under that id as get_image read it before.
C3_DuplicateIdRefused ==
    [][(frame.pc = "insert" /\ frame'.pc = "idle" /\ HasId(images, frame.img_id)) =>
          /\ ret'.op = "store_image" /\ ret'.raised = IntegrityError
          /\ get_image(images', frame.img_id) = get_image(images, frame.img_id)
          /\ Len(images') = Len(images)]_vars

\* A call with a stored id has just failed.
C3_Witness ==
    /\ ret.op = "store_image" /\ ret.raised = IntegrityError
    /\ HasId(images, ret.img_id)

\* The call in flight names a parent that its SELECT did not find, and an id
\* that is not stored.
DanglingParentCall ==
    /\ frame.pc = "insert" /\ frame'.pc = "idle"
    /\ frame.image_info.parent_id # None /\ ~frame.lineage.found
    /\ ~HasId(images, frame.img_id)

\* C4 as stated: with a parent_id that names no record the call does not
\* raise, the record is stored, edit_chain is [] and operation_history has no
\* ancestor entries.
C4_AsStated ==
    [][DanglingParentCall =>
          /\ ret'.raised = None /\ HasId(images', frame.img_id)
          /\ RowOf(images', frame.img_id).edit_chain = <<>>
          /\ RowOf(images', frame.img_id).operation_history =
                 <<OwnEntry(RowOf(images', frame.img_id))>>]_vars

\* C4, amended: with a parent_id that names no record the call does not raise,
\* the record is stored, operation_history holds its own entry alone, and
\* edit_chain is [parent_id]: no ancestor is inherited, the parent_id itself is
\* still appended.
C4_DanglingParent ==
    [][DanglingParentCall =>
          /\ ret'.raised = None /\ HasId(images', frame.img_id)
          /\ RowOf(images', frame.img_id).edit_chain = <<frame.image_info.parent_id>>
          /\ RowOf(images', frame.img_id).operation_history =
                 <<OwnEntry(RowOf(images', frame.img_id))>>]_vars

\* A record whose parent_id names no stored record has just been stored.
C4_Witness ==
    /\ StoredOk /\ ret.parent_id # None /\ ~ret.found
    /\ ~HasId(images, ret.parent_id)
    /\ HasId(images, ret.img_id)

Validated(img_id_stored, index) ==
    /\ ret.op = "validate_image_index"
    /\ HasId(images, ret.img_id) = img_id_stored
    /\ ret.index = index

\* C9 as stated: for a stored id the indices 0 and 5, and for a missing id the
\* index 1, all fail, with three pairwise distinct messages.
C9_AsStated ==
    \A a \in IdsOf(images), b \in ApiAllIds \ IdsOf(images) :
        LET r0 == validate_image_index(images, a, IntIndex(0))
            r5 == validate_image_index(images, a, IntIndex(5))
            rm == validate_image_index(images, b, IntIndex(1))
        IN /\ ~r0[1] /\ ~r5[1] /\ ~rm[1]
           /\ r0[2] # r5[2] /\ r0[2] # rm[2] /\ r5[2] # rm[2]

\* C9, amended: the three calls fail, each with the same message on every
\* call; the message for the missing id differs from the other two, and the
\* indices 0 and 5 get one and the same message (index must be 1 to 4).
C9_ValidationMessages ==
    /\ MSG_ID_NOT_FOUND # MSG_NOT_1_TO_4
    /\ (Validated(TRUE, IntIndex(0)) \/ Validated(TRUE, IntIndex(5))) =>
          ret.result = <<FALSE, MSG_NOT_1_TO_4>>
    /\ Validated(FALSE, IntIndex(1)) => ret.result = <<FALSE, MSG_ID_NOT_FOUND>>

\* Index 5 has just been refused for a stored id.
C9_Witness == Validated(TRUE, IntIndex(5)) /\ ~ret.result[1]

\* ------------------------------------------------ the running plugin
\* C5: every stored record has a non-empty urls list; no state of the store
\* holds a record whose urls is empty.
C5_UrlsNeverEmpty == \A i \in 1..Len(images) : images[i].urls # <<>>

\* A regenerate command has just stored the record of its completion.
C5_Witness ==
    /\ ret.op = "regenerate" /\ ret.reply = REPLY_IMAGE
    /\ \E i \in 1..Len(images) : images[i].parent_id # None /\ images[i].urls # <<>>

\* Every row of the table is still there, at its place and with every field
\* as it was.
C6_RowsKept ==
    \A i \in 1..Len(images) : i <= Len(images') /\ images'[i] = images[i]

\* C6: the store is append-only: no step of the plugin (a handler of any
\* command, a handler of another thread that shares the parent, validation,
\* lookup, restart) changes or deletes a field of a stored record.
C6_AppendOnly == [][C6_RowsKept]_vars

\* Two edits of one parent at the same time: one edit waits for its stream
\* while the child that another edit of the same parent stored is in the table.
C6_Witness ==
    /\ handler.pc = "awaiting" /\ handler.op = "edit"
    /\ \E j \in 1..Len(images) :
          /\ images[j].parent_id = handler.image_data.id
          /\ images[j].operation_type = "edit"

CompletionOps == {"generate", "edit", "outpaint", "regenerate", "reference", "inpaint"}

\* C7: an operation that got a successful completion result is given an id
\* that no stored record has, so its store_image call never fails with a
\* duplicate id and its image is recorded.
C7_FreshIds ==
    (ret.op \in CompletionOps /\ ret.completed) =>
        /\ ret.raised # IntegrityError
        /\ HasId(images, ToString(now))

ValidationMessages ==
    {MSG_ID_NOT_FOUND, MSG_NOT_A_NUMBER, MSG_NOT_1_TO_4, MSG_OUT_OF_RANGE,
     MSG_VALIDATE_ERROR}

\* (True, None) or (False, message).
ValidationPair(result) ==
    /\ Len(result) = 2
    /\ \/ result[1] = TRUE /\ result[2] = None
       \/ result[1] = FALSE /\ result[2] \in ValidationMessages

\* C11: validate_image_index never raises, for any id and any index (an
\* integer, not an integer, out of range), also when the database cannot be
\* opened or read: a failure is the pair (False, message), success is
\* (True, None).
C11_ValidateNeverRaises ==
    /\ ret.op = "validate_image_index" => ValidationPair(ret.result)
    /\ ret.op = "validate_image_index (db fault)" =>
          ret.raised = None /\ ValidationPair(ret.result)
    /\ \A img_id \in ApiAllIds, index \in IndexInputs, fault \in DbFaults \cup {"ok"} :
          LET v == validate_image_index_call(images, img_id, index, fault)
          IN v.raised = None /\ ValidationPair(v.result)

\* sqlite3.connect raised inside the call and the caller got a pair.
C11_Witness ==
    /\ ret.op = "validate_image_index (db fault)" /\ ret.fault = "connect"
    /\ ret.result = <<FALSE, MSG_VALIDATE_ERROR>>
    /\ images # <<>>

\* ====================================================== the upload client
\* ImageUploader.upload_and_process_image: five requests made one after the
\* other through one requests.Session whose adapter carries
\* Retry(total=3, backoff_factor=0.5, status_forcelist=[429, 500, 502, 503, 504]).

\* Retry(total=3).
RETRY_TOTAL == 3

\* The steps in the order of the code, with the HTTP method of each request.
Steps == <<"token", "apply", "raw", "commit", "mask">>

StepNo(step) == CHOOSE i \in 1..Len(Steps) : Steps[i] = step

MethodOf(step) == IF step = "apply" THEN "GET" ELSE "POST"

\* The requests that carry an AWS4 signature computed by the client.
SignedSteps == {"apply", "commit"}

\* What one attempt of a request can meet:
\*   ok            status 200 and the application-level success of the step
\*   app_error     a response with an application error code / error metadata
\*   rejected      a 4xx answer, such as 403 for a refused signature
\*   overloaded    429, 500, 502, 503 or 504
\*   connect_error no connection could be made, nothing was sent
\*   read_error    the connection broke after the request was sent
\*   silent        the server accepted the request and never answers
Outcomes ==
    {"ok", "app_error", "rejected", "overloaded", "connect_error", "read_error",
     "silent"}

\* status_forcelist of the upload session.
StatusForcelist == {"overloaded"}

\* urllib3's Retry.allowed_methods, left at its default: the idempotent
\* methods; POST is not among them.
AllowedMethods == {"HEAD", "GET", "PUT", "DELETE", "OPTIONS", "TRACE"}

\* The transport retrying every failed attempt, whatever its kind.
Transport_RetriesAll(method, outcome, retries) ==
    IF outcome = "ok" THEN "response"
    ELSE IF retries > 0 THEN "retry"
    ELSE "raise"

\* What the session's adapter does with the outcome of one attempt, with
\* `retries` attempts left: "retry" the request, "raise" to the caller, or
\* hand the "response" to the caller.
Transport(method, outcome, retries) ==
    IF outcome = "connect_error"
    THEN IF retries > 0 THEN "retry" ELSE "raise"
    ELSE IF outcome = "read_error"
    THEN IF method \in AllowedMethods /\ retries > 0 THEN "retry" ELSE "raise"
    ELSE IF outcome \in StatusForcelist /\ method \in AllowedMethods
    THEN IF retries > 0 THEN "retry" ELSE "raise"
    ELSE "response"

\* The step after `step`, mask query straight after the raw upload.
NextStep_SkipsCommit(step) ==
    IF step = "raw" THEN "mask" ELSE Steps[StepNo(step) + 1]

\* The step the code goes on with after `step` has succeeded.
NextStep(step) == Steps[StepNo(step) + 1]

UploadOp == "upload_and_process_image"

\* upload_and_process_image letting the exception of a failed step pass.
UploadReturn_Raises(step, outcome, key) ==
    IF step = "mask" /\ outcome = "ok"
    THEN [op |-> UploadOp, success |-> TRUE, error |-> [step |-> None, cause |-> None],
          image_key |-> key, raised |-> None]
    ELSE [op |-> UploadOp, success |-> FALSE, error |-> [step |-> step, cause |-> outcome],
          image_key |-> None, raised |-> "Exception"]

\* upload_and_process_image answering success although the mask query failed.
UploadReturn_MaskSwallowed(step, outcome, key) ==
    IF step = "mask"
    THEN [op |-> UploadOp, success |-> TRUE, error |-> [step |-> None, cause |-> None],
          image_key |-> key, raised |-> None]
    ELSE [op |-> UploadOp, success |-> FALSE, error |-> [step |-> step, cause |-> outcome],
          image_key |-> None, raised |-> None]

\* The dict upload_and_process_image returns when `step` has ended with
\* `outcome`: the success dict with image_key after the mask query, the
\* fixed text 'Failed to get background mask' when the mask query failed
\* (the cause is logged only), and str(e) of the outer except otherwise.
\* The two failure dicts have no image_key.
UploadReturn(step, outcome, key) ==
    IF step = "mask" /\ outcome = "ok"
    THEN [op |-> UploadOp, success |-> TRUE, error |-> [step |-> None, cause |-> None],
          image_key |-> key, raised |-> None]
    ELSE IF step = "mask"
    THEN [op |-> UploadOp, success |-> FALSE, error |-> [step |-> "mask", cause |-> None],
          image_key |-> None, raised |-> None]
    ELSE [op |-> UploadOp, success |-> FALSE, error |-> [step |-> step, cause |-> outcome],
          image_key |-> None, raised |-> None]

\* The image service after `step` got the answer ok: the raw upload stores
\* the bytes under the key, the commit marks them committed.
Served(service, step, key) ==
    IF step = "raw" THEN service \cup {[key |-> key, committed |-> FALSE]}
    ELSE IF step = "commit"
    THEN (service \ {[key |-> key, committed |-> FALSE]})
             \cup {[key |-> key, committed |-> TRUE]}
    ELSE service

\* upload_and_process_image is called.
UploadAndProcessImage ==
    /\ upload = Idle
    /\ Cardinality(tos) < MaxKeys
    /\ upload' = [pc |-> "token", retries |-> RETRY_TOTAL, key |-> None, blocked |-> FALSE]
    /\ wire' = <<>>
    /\ ret' = NoRet
    /\ UNCHANGED <<media, maint, images, now, frame, plugin, tos, completion, signed>>

\* One attempt of the request of `step` meets `outcome`.  No request of the
\* upload session carries a timeout, so a silent server blocks the call.
Attempt(step, outcome) ==
    /\ upload.pc = step
    /\ ~upload.blocked
    /\ wire' = Append(wire, [step |-> step, outcome |-> outcome])
    /\ LET t == Transport(MethodOf(step), outcome, upload.retries)
           key == IF step = "apply" THEN Cardinality(tos) + 1 ELSE upload.key
       IN IF outcome = "silent"
          THEN /\ upload' = [upload EXCEPT !.blocked = TRUE]
               /\ UNCHANGED <<ret, tos>>
          ELSE IF t = "retry"
          THEN /\ upload' = [upload EXCEPT !.retries = @ - 1]
               /\ UNCHANGED <<ret, tos>>
          ELSE IF t = "response" /\ outcome = "ok" /\ step # "mask"
          THEN /\ upload' = [pc |-> NextStep(step), retries |-> RETRY_TOTAL,
                              key |-> key, blocked |-> FALSE]
               /\ tos' = Served(tos, step, key)
               /\ UNCHANGED ret
          ELSE /\ upload' = Idle
               /\ ret' = UploadReturn(step, outcome, key)
               /\ UNCHANGED tos
    /\ UNCHANGED <<media, maint, images, now, frame, plugin, completion, signed>>

GetUploadToken(outcome) == Attempt("token", outcome)

ApplyImageUpload(outcome) == Attempt("apply", outcome)

UploadBytes(outcome) == Attempt("raw", outcome)

CommitUpload(outcome) == Attempt("commit", outcome)

GetBackgroundMask(outcome) == Attempt("mask", outcome)

NextUpload ==
    \/ UploadAndProcessImage
    \/ \E outcome \in Outcomes : GetUploadToken(outcome)
    \/ \E outcome \in Outcomes : ApplyImageUpload(outcome)
    \/ \E outcome \in Outcomes : UploadBytes(outcome)
    \/ \E outcome \in Outcomes : CommitUpload(outcome)
    \/ \E outcome \in Outcomes : GetBackgroundMask(outcome)

SpecUpload == Init /\ [][NextUpload]_vars

\* ------------------------------------------------- claims on the upload
Last(seq) == seq[Len(seq)]

\* The attempts of `step` on the wire.
AttemptsOf(step) == {i \in DOMAIN wire : wire[i].step = step}

\* The call has returned and `step` was the step it ended in.
ReturnedIn(steps) == upload = Idle /\ wire # <<>> /\ Last(wire).step \in steps

\* C12: the requests of one upload go out in the order token, apply, raw
\* upload, commit, mask query; a request of a step goes out only after every
\* earlier step got its ok; success = true is returned only after all five
\* steps got their ok.
C12_StepsInOrder ==
    /\ \A i, j \in DOMAIN wire : i < j => StepNo(wire[i].step) <= StepNo(wire[j].step)
    /\ \A j \in DOMAIN wire : \A n \in 1..(StepNo(wire[j].step) - 1) :
          \E i \in 1..(j - 1) : wire[i] = [step |-> Steps[n], outcome |-> "ok"]
    /\ (ret.op = UploadOp /\ ret.success) =>
          \A n \in 1..Len(Steps) :
              \E i \in DOMAIN wire : wire[i] = [step |-> Steps[n], outcome |-> "ok"]

\* An upload has returned success = true.
C12_Witness == ReturnedIn({"mask"}) /\ ret.op = UploadOp /\ ret.success

\* C13: when one of the steps 1 to 4 fails, no request of a later step goes
\* out and the call returns {success: false, error: reason} without raising.
C13_FatalStepFailure ==
    /\ \A i \in 1..(Len(wire) - 1) :
          wire[i].outcome # "ok" => wire[i + 1].step = wire[i].step
    /\ ReturnedIn({"token", "apply", "raw", "commit"}) =>
          /\ Last(wire).outcome # "ok"
          /\ ret.op = UploadOp /\ ~ret.success /\ ret.raised = None
          /\ ret.error = [step |-> Last(wire).step, cause |-> Last(wire).outcome]

\* The commit was answered with an application error and the call returned.
C13_Witness ==
    /\ ReturnedIn({"commit"}) /\ Last(wire).outcome = "app_error"
    /\ ~ret.success

MaskFailed == ReturnedIn({"mask"}) /\ Last(wire).outcome # "ok"

C14_State ==
    MaskFailed =>
        /\ ret.op = UploadOp /\ ~ret.success /\ ret.raised = None
        /\ ret.error.step = "mask"
        /\ [key |-> Cardinality(tos), committed |-> TRUE] \in tos

C14_BytesStay == \A k \in tos : k.committed => k \in tos'

\* C14: when steps 1 to 4 succeeded and the mask query fails or throws, the
\* call returns success = false with a reason that names the mask query, and
\* the committed bytes stay in the image service, now and ever after.
C14_MaskFailureReported == [](C14_State) /\ [][C14_BytesStay]_vars

\* The mask query threw (the connection broke) after a committed upload.
C14_Witness == MaskFailed /\ Last(wire).outcome = "read_error" /\ ~ret.success

\* C15: when the mask query fails after a committed upload, the failure
\* result carries the asset key of the uploaded bytes, and the bytes can be
\* read under that key.
C15_FailureReturnsKey ==
    MaskFailed =>
        /\ ret.image_key # None
        /\ [key |-> ret.image_key, committed |-> TRUE] \in tos

ProtocolFailures == {"app_error", "rejected"}

TransientFailures == {"connect_error", "read_error", "overloaded"}

\* C16: a request that met a protocol-level failure is never issued again
\* and the upload ends; only an attempt that met a transient transport
\* failure is followed by another attempt of the same request, and a request
\* is attempted at most 1 + 3 times.
C16_RetryPolicy ==
    /\ \A i \in DOMAIN wire : wire[i].outcome \in ProtocolFailures =>
          i = Len(wire) /\ upload = Idle
    /\ \A i \in 1..(Len(wire) - 1) :
          wire[i + 1].step = wire[i].step => wire[i].outcome \in TransientFailures
    /\ \A n \in 1..Len(Steps) : Cardinality(AttemptsOf(Steps[n])) <= 1 + RETRY_TOTAL
    /\ \A method \in {"GET", "POST"}, outcome \in ProtocolFailures, r \in 0..RETRY_TOTAL :
          Transport(method, outcome, r) = "response"

\* The apply request was retried three times and then refused (403).
C16_Witness ==
    /\ ReturnedIn({"apply"}) /\ Last(wire).outcome = "rejected"
    /\ Cardinality(AttemptsOf("apply")) = 1 + RETRY_TOTAL

\* C17: each signed request (apply, commit) is sent at most once per upload.
\* (An attempt that got no connection has sent nothing.)
C17_SignedSentOnce ==
    \A step \in SignedSteps :
        Cardinality({i \in AttemptsOf(step) : wire[i].outcome # "connect_error"}) <= 1

\* The upload under fair scheduling: a request that can get an answer, a
\* failure or a retry gets one.
SpecUploadFair == Init /\ [][NextUpload]_vars /\ WF_vars(NextUpload)

\* C18: every network call carries a timeout, so every upload that was
\* started returns, with success or failure, also when the server accepts a
\* request and never answers it.
C18_UploadReturns == (upload # Idle) ~> (upload = Idle)

\* ============================================================ the signer
\* ImageUploader._get_authorization_header.  Text is a sequence of
\* characters or of named pieces; hashlib.sha256 and hmac.new are the
\* functions of their arguments that they are, kept as terms.
sha256(text) == [sha256 |-> text]

hmac_sha256(key, msg) == [hmac_key |-> key, msg |-> msg]

\* requests.utils.quote(str(param), safe=''): every character that is not
\* unreserved becomes its percent escape.
QuoteChar(c) ==
    IF c = "/" THEN <<"%", "2", "F">>
    ELSE IF c = ":" THEN <<"%", "3", "A">>
    ELSE <<c>>

RECURSIVE encode_param(_)
encode_param(param) ==
    IF param = <<>> THEN <<>>
    ELSE QuoteChar(param[1]) \o encode_param(Tail(param))

\* The parameter names of the two signed requests in the order Python's
\* string comparison puts them (upper case before lower case).
KeyOrder == <<"Action", "FileExtension", "FileSize", "ServiceId", "SessionKey", "Version", "s">>

KeyRank(k) == CHOOSE i \in 1..Len(KeyOrder) : KeyOrder[i] = k

\* sorted(request_parameters.items()): the items of the dict, which come in
\* insertion order, ordered by key.
RECURSIVE sorted(_)
sorted(items) ==
    IF items = <<>> THEN <<>>
    ELSE LET m == CHOOSE i \in DOMAIN items :
                      \A j \in DOMAIN items : KeyRank(items[i][1]) <= KeyRank(items[j][1])
             rest == [j \in 1..(Len(items) - 1) |-> IF j < m THEN items[j] ELSE items[j + 1]]
         IN <<items[m]>> \o sorted(rest)

\* _get_authorization_header: (authorization_header, canonical_querystring).
get_authorization_header(a) ==
    LET items == sorted(a.request_parameters)
        canonical_querystring ==
            [i \in DOMAIN items |-> <<items[i][1], "=", encode_param(items[i][2])>>]
        canonical_headers ==
            <<"host:imagex.bytedanceapi.com", <<"x-amz-date:", a.amz_date>>,
              <<"x-amz-security-token:", a.security_token>>>>
        signed_headers == "host;x-amz-date;x-amz-security-token"
        payload_hash == sha256(a.payload)
        canonical_request ==
            <<a.method, "/", canonical_querystring, canonical_headers, signed_headers,
              payload_hash>>
        algorithm == "AWS4-HMAC-SHA256"
        credential_scope == <<a.datestamp, a.region, a.service, "aws4_request">>
        string_to_sign ==
            <<algorithm, a.amz_date, credential_scope, sha256(canonical_request)>>
        k_date == hmac_sha256(<<"AWS4", a.secret_key>>, a.datestamp)
        k_region == hmac_sha256(k_date, a.region)
        k_service == hmac_sha256(k_region, a.service)
        k_signing == hmac_sha256(k_service, "aws4_request")
        signature == hmac_sha256(k_signing, string_to_sign)
        authorization_header ==
            [algorithm |-> algorithm, Credential |-> <<a.access_key, credential_scope>>,
             SignedHeaders |-> signed_headers, Signature |-> signature]
    IN <<authorization_header, canonical_querystring>>

\* The dates of the clock reading t, as datetime.utcnow() formats them.
AmzDate(t) == <<"2025010", ToString(t), "T000000Z">>
DateStamp(t) == <<"2025010", ToString(t)>>

\* A call that takes the dates from the clock instead of its arguments.
SignAt_OwnClock(a, clock, earlier) ==
    get_authorization_header([a EXCEPT !.amz_date = AmzDate(clock),
                                       !.datestamp = DateStamp(clock)])

\* One call of _get_authorization_header made when the clock reads `clock`
\* and after the calls `earlier`: the function reads neither.
SignAt(a, clock, earlier) == get_authorization_header(a)

\* The request parameters of ApplyImageUpload, in the order the dict is
\* built, in another order, and with another FileSize.
ApplyParams ==
    <<<<"Action", <<"A">>>>, <<"Version", <<"2", "0", "1", "8">>>>,
      <<"ServiceId", <<"a", "9">>>>, <<"FileSize", <<"7">>>>,
      <<"FileExtension", <<".", "p", "n", "g">>>>, <<"s", <<"x", "/", ":">>>>>>

ApplyParamsReordered ==
    <<ApplyParams[6], ApplyParams[4], ApplyParams[1], ApplyParams[5], ApplyParams[3],
      ApplyParams[2]>>

ApplyParamsOtherSize ==
    [ApplyParams EXCEPT ![4] = <<"FileSize", <<"8">>>>]

CommitParams ==
    <<<<"Action", <<"C">>>>, <<"Version", <<"2", "0", "1", "8">>>>,
      <<"ServiceId", <<"a", "9">>>>>>

ApplyArgs ==
    [access_key |-> "AK", secret_key |-> "SK", region |-> "cn-north-1",
     service |-> "imagex", request_parameters |-> ApplyParams,
     amz_date |-> AmzDate(1), datestamp |-> DateStamp(1), security_token |-> "ST",
     method |-> "GET", payload |-> ""]

\* The argument lists of the model.
SignArgs ==
    {ApplyArgs,
     [ApplyArgs EXCEPT !.request_parameters = ApplyParamsReordered],
     [ApplyArgs EXCEPT !.request_parameters = ApplyParamsOtherSize],
     [ApplyArgs EXCEPT !.secret_key = "SK2"],
     [ApplyArgs EXCEPT !.request_parameters = CommitParams, !.method = "POST",
                       !.payload = "{SessionKey}"]}

\* _get_authorization_header is called.
GetAuthorizationHeader(a) ==
    /\ Cardinality(signed) < MaxCalls
    /\ signed' = signed \cup {[args |-> a, at |-> now, result |-> SignAt(a, now, signed)]}
    /\ UNCHANGED <<media, maint, images, now, frame, ret, plugin, upload, wire, tos, completion>>

NextSign ==
    \/ \E a \in SignArgs : GetAuthorizationHeader(a)
    \/ Tick

SpecSign == Init /\ [][NextSign]_vars

\* The same dict: the same keys with the same values, in whatever order.
SameDict(p, q) == {p[i] : i \in DOMAIN p} = {q[i] : i \in DOMAIN q}

SameInputs(a, b) ==
    /\ [a EXCEPT !.request_parameters = <<>>] = [b EXCEPT !.request_parameters = <<>>]
    /\ SameDict(a.request_parameters, b.request_parameters)

\* C19: two calls of _get_authorization_header with the same credentials,
\* region, service, request parameters, dates, session token, method and
\* payload return the same authorization header and the same canonical query
\* string, whenever they are made and whatever was signed before.
C19_SigningDeterministic ==
    \A x, y \in signed : SameInputs(x.args, y.args) => x.result = y.result

\* The same parameters were signed at two clock readings, once with the dict
\* built in another order, and a different FileSize got another signature.
C19_Witness ==
    /\ \E x, y \in signed :
          /\ SameInputs(x.args, y.args) /\ x.args # y.args /\ x.at # y.at
          /\ x.result = y.result
    /\ \E x, y \in signed : ~SameInputs(x.args, y.args) /\ x.result # y.result

\* ================================================= the completion stream
\* ApiClient.send_request: the request it posts and the lines of the event
\* stream it reads.

\* The content of a message as the callers build it: a dict, or a string the
\* caller has already serialized.  The value is the text as a sequence of
\* tokens.
DictContent(v) == [type |-> "dict", value |-> <<v>>]
StrContent(v) == [type |-> "str", value |-> v]

\* json.dumps: a dict becomes the text of its object, a string becomes a
\* quoted string.
json_dumps(content) ==
    IF content.type = "dict"
    THEN [type |-> "str", value |-> <<"{">> \o content.value \o <<"}">>]
    ELSE [type |-> "str", value |-> <<"\"">> \o content.value \o <<"\"">>]

Message(content) == [content |-> content, content_type |-> 2009]

\* The request bodies of the callers, as their lists of messages: a body
\* without messages (skill pack, message list), a message whose content is a
\* dict (generate, edit, outpaint, regenerate) and a message whose content the
\* caller serialized (reference image, koutu, inpaint, enlarge).
RequestBodies ==
    {<<>>,
     <<Message(DictContent("generate"))>>,
     <<Message(json_dumps(DictContent("reference")))>>}

\* Every content is serialized, a string too.
SerializeContent_Always(msg) == [msg EXCEPT !.content = json_dumps(@)]

\* if isinstance(msg.get("content"), dict): msg["content"] = json.dumps(...)
SerializeContent(msg) ==
    IF msg.content.type = "dict" THEN [msg EXCEPT !.content = json_dumps(@)] ELSE msg

\* for msg in data["messages"]: the body that is posted.
PrepareMessages(data) == [i \in DOMAIN data |-> SerializeContent(data[i])]

\* The records of the data array of an image-result event: one with
\* image_raw.url, one without image_raw, one whose image_raw has no url.
UrlRecord(u) == [kind |-> "image_raw.url", url |-> u]
NoRawRecord == [kind |-> "no image_raw", url |-> 0]
NoUrlRecord == [kind |-> "image_raw without url", url |-> 0]

\* "conversation_id" is not a key of the event.
Absent == "absent"

\* The lines of a stream: a line that is skipped (empty, not "data:", no
\* event_data), a line whose envelope or whose event_data is not JSON, a line
\* whose bytes are not UTF-8, an event with the conversation ids, and
\* image-result events (message.content_type = 2010) without and with the
\* conversation ids.
Line(kind, conv, sec, rep, data) ==
    [kind |-> kind, conversation_id |-> conv, section_id |-> sec, reply_id |-> rep,
     data |-> data]

SkippedLine == Line("skipped", Absent, None, None, <<>>)
MalformedEnvelope == Line("bad envelope", Absent, None, None, <<>>)
MalformedEventData == Line("bad event_data", Absent, None, None, <<>>)
UndecodableBytes == Line("undecodable bytes", Absent, None, None, <<>>)
ConversationEvent(conv, sec, rep) == Line("conversation", conv, sec, rep, <<>>)
ImageEvent(data) == Line("image", Absent, None, None, data)
ImageConversationEvent(conv, sec, rep, data) == Line("image", conv, sec, rep, data)

MalformedLines == {MalformedEnvelope, MalformedEventData}

StreamLines ==
    {SkippedLine, MalformedEnvelope, MalformedEventData, UndecodableBytes,
     ConversationEvent("c1", "s1", "r1"),
     ConversationEvent("c2", None, None),
     ImageEvent(<<UrlRecord(1), UrlRecord(2)>>),
     ImageEvent(<<UrlRecord(3), NoRawRecord, UrlRecord(4)>>),
     ImageEvent(<<UrlRecord(5), NoUrlRecord, UrlRecord(6)>>),
     ImageConversationEvent("c3", "s3", "r3", <<NoUrlRecord, UrlRecord(1)>>)}

\* for img_data in content["data"]: append img_data["image_raw"]["url"] when
\* "image_raw" is in img_data.  A missing "url" raises KeyError out of the
\* for loop; the except of the line logs it and the loop over the lines goes
\* on with the next line, the urls appended so far staying in the list.
RECURSIVE AppendUrls(_, _)
AppendUrls(image_urls, data) ==
    IF data = <<>> THEN image_urls
    ELSE IF data[1].kind = "no image_raw" THEN AppendUrls(image_urls, Tail(data))
    ELSE IF data[1].kind = "image_raw without url" THEN image_urls
    ELSE AppendUrls(Append(image_urls, data[1].url), Tail(data))

\* The accumulators before the first line.
Opened(data) ==
    [pc |-> "reading", data |-> data, sent |-> PrepareMessages(data), emitted |-> <<>>,
     image_urls |-> <<>>, conversation_id |-> None, section_id |-> None,
     reply_id |-> None]

\* A section_id or reply_id the event lacks is kept from an earlier event.
SetIds_KeepsEarlier(st, line) ==
    IF line.conversation_id # Absent
    THEN [st EXCEPT !.conversation_id = line.conversation_id,
                    !.section_id = IF line.section_id = None THEN @ ELSE line.section_id,
                    !.reply_id = IF line.reply_id = None THEN @ ELSE line.reply_id]
    ELSE st

\* if "conversation_id" in event_data: the three identifiers are replaced.
SetIds(st, line) ==
    IF line.conversation_id # Absent
    THEN [st EXCEPT !.conversation_id = line.conversation_id,
                    !.section_id = line.section_id,
                    !.reply_id = line.reply_id]
    ELSE st

\* The identifiers of the first event are kept.
ProcessLine_FirstWins(st, line) ==
    IF line.kind = "undecodable bytes" THEN [st EXCEPT !.pc = "aborted"]
    ELSE IF line.kind \in {"skipped", "bad envelope", "bad event_data"} THEN st
    ELSE LET ids == IF st.conversation_id = None THEN SetIds(st, line) ELSE st
         IN  IF line.kind = "image"
             THEN [ids EXCEPT !.image_urls = AppendUrls(@, line.data)]
             ELSE ids

\* A line whose event_data is not JSON ends the call.
ProcessLine_DecodeErrorFatal(st, line) ==
    IF line.kind \in {"undecodable bytes", "bad event_data"}
    THEN [st EXCEPT !.pc = "aborted"]
    ELSE IF line.kind \in {"skipped", "bad envelope"} THEN st
    ELSE LET ids == SetIds(st, line)
         IN  IF line.kind = "image"
             THEN [ids EXCEPT !.image_urls = AppendUrls(@, line.data)]
             ELSE ids

\* The body of `for line in response.iter_lines()`.  line.decode('utf-8') is
\* outside the try of the line: bytes that are not UTF-8 raise out of the
\* loop.  A line that is skipped or fails in json.loads changes nothing.
ProcessLine(st, line) ==
    IF line.kind = "undecodable bytes" THEN [st EXCEPT !.pc = "aborted"]
    ELSE IF line.kind \in {"skipped", "bad envelope", "bad event_data"} THEN st
    ELSE LET ids == SetIds(st, line)
         IN  IF line.kind = "image"
             THEN [ids EXCEPT !.image_urls = AppendUrls(@, line.data)]
             ELSE ids

\* except requests.exceptions.RequestException / except Exception: return None.
Caught(exc) == [raised |-> FALSE, result |-> NoneDict]

\* What send_request returns: how it ended, what it had accumulated.
SendRequestRet(st, how, out) ==
    [op |-> "send_request", data |-> st.data, sent |-> st.sent, emitted |-> st.emitted,
     image_urls |-> st.image_urls, how |-> how, raised |-> out.raised,
     result |-> out.result]

\* The end of the loop: `if image_urls: return {...} else: return None`.
Returned(st) ==
    [raised |-> FALSE,
     result |-> send_request_return(Stream(st.image_urls, st.conversation_id,
                                            st.section_id, st.reply_id))]

\* send_request is called, posts the body and the stream opens.
SendRequest(data) ==
    /\ completion = Idle
    /\ completion' = Opened(data)
    /\ ret' = NoRet
    /\ UNCHANGED <<media, maint, images, now, frame, plugin, upload, wire, tos, signed>>

\* The post raises (connection refused, timeout) or raise_for_status does.
RequestFails(data) ==
    /\ completion = Idle
    /\ ret' = SendRequestRet(Opened(data), "RequestException", Caught("RequestException"))
    /\ UNCHANGED <<media, maint, images, now, frame, plugin, upload, wire, tos, completion, signed>>

\* One turn of `for line in response.iter_lines()`.
StreamLine(line) ==
    /\ completion.pc = "reading"
    /\ Len(completion.emitted) < MaxEvents
    /\ LET st == [ProcessLine(completion, line) EXCEPT !.emitted = Append(@, line)]
       IN  IF st.pc = "aborted"
           THEN /\ ret' = SendRequestRet(st, "Exception", Caught("UnicodeDecodeError"))
                /\ completion' = Idle
           ELSE /\ completion' = st
                /\ ret' = ret
    /\ UNCHANGED <<media, maint, images, now, frame, plugin, upload, wire, tos, signed>>

\* The stream ends and send_request returns.
StreamEnds ==
    /\ completion.pc = "reading"
    /\ ret' = SendRequestRet(completion, "end", Returned(completion))
    /\ completion' = Idle
    /\ UNCHANGED <<media, maint, images, now, frame, plugin, upload, wire, tos, signed>>

\* The connection breaks or times out while the lines are read: the
\* RequestException is caught and send_request returns None.
StreamBreaks ==
    /\ completion.pc = "reading"
    /\ ret' = SendRequestRet(completion, "RequestException", Caught("RequestException"))
    /\ completion' = Idle
    /\ UNCHANGED <<media, maint, images, now, frame, plugin, upload, wire, tos, signed>>

NextStream ==
    \/ \E data \in RequestBodies : SendRequest(data)
    \/ \E data \in RequestBodies : RequestFails(data)
    \/ \E line \in StreamLines : StreamLine(line)
    \/ StreamEnds
    \/ StreamBreaks

SpecStream == Init /\ [][NextStream]_vars

\* The image_raw.url values of the records of a data array, in its order.
RECURSIVE UrlsOfData(_)
UrlsOfData(data) ==
    IF data = <<>> THEN <<>>
    ELSE (IF data[1].kind = "image_raw.url" THEN <<data[1].url>> ELSE <<>>)
             \o UrlsOfData(Tail(data))

\* The image_raw.url values of all image-result events, in arrival order.
RECURSIVE UrlsOfStream(_)
UrlsOfStream(lines) ==
    IF lines = <<>> THEN <<>>
    ELSE (IF lines[1].kind = "image" THEN UrlsOfData(lines[1].data) ELSE <<>>)
             \o UrlsOfStream(Tail(lines))

\* C20: the urls send_request returns are the image_raw.url values of all
\* image records of all image-result events of the stream, in the order of
\* emission: none dropped, duplicated or reordered.
C20_UrlsInEmissionOrder ==
    (ret.op = "send_request" /\ ret.result # NoneDict) =>
        ret.result.urls = UrlsOfStream(ret.emitted)

\* The lines of a stream read one after the other from the opened state, up
\* to the line that raises out of the loop.
RECURSIVE ReadLines(_, _)
ReadLines(st, lines) ==
    IF lines = <<>> \/ st.pc = "aborted" THEN st
    ELSE ReadLines([ProcessLine(st, lines[1]) EXCEPT !.emitted = Append(@, lines[1])],
                   Tail(lines))

\* What send_request returns for a body and a stream that is read to its end.
send_request_of(data, lines) ==
    LET st == ReadLines(Opened(data), lines)
    IN  IF st.pc = "aborted" THEN Caught("UnicodeDecodeError").result
        ELSE Returned(st).result

\* The events of a stream that carry a conversation_id, in arrival order.
CarriesConversationId(line) ==
    line.kind \in {"conversation", "image"} /\ line.conversation_id # Absent

ConversationEvents(lines) == SelectSeq(lines, CarriesConversationId)

\* C21: when several events of one completion stream carry a
\* conversation_id, the conversation_id send_request returns is the one of
\* the last such event in arrival order, wherever those events are.
C21_LastConversationIdWins ==
    (ret.op = "send_request" /\ ret.result # NoneDict
        /\ ConversationEvents(ret.emitted) # <<>>) =>
        ret.result.conversation_id = Last(ConversationEvents(ret.emitted)).conversation_id

\* A result whose stream carried two different conversation ids, with an
\* image event after the last of them.
C21_Witness ==
    /\ ret.op = "send_request" /\ ret.result # NoneDict
    /\ LET ev == ConversationEvents(ret.emitted)
       IN  /\ Len(ev) >= 2
           /\ ev[1].conversation_id # ev[Len(ev)].conversation_id
           /\ ret.result.conversation_id = ev[Len(ev)].conversation_id
    /\ ret.emitted[Len(ret.emitted)].conversation_id = Absent

InsertAt(s, i, x) == SubSeq(s, 1, i) \o <<x>> \o SubSeq(s, i + 1, Len(s))
RemoveAt(s, i) == SubSeq(s, 1, i - 1) \o SubSeq(s, i + 1, Len(s))

\* C22: a line whose JSON cannot be decoded, at the envelope layer or at the
\* event_data layer, changes nothing: the call returns what it returns for
\* the stream without that line, wherever the line is, and is not aborted by
\* it.
C22_MalformedLineSkipped ==
    (ret.op = "send_request" /\ ret.how = "end") =>
        /\ \A i \in DOMAIN ret.emitted :
              ret.emitted[i] \in MalformedLines =>
                  ret.result = send_request_of(ret.data, RemoveAt(ret.emitted, i))
        /\ \A i \in 0..Len(ret.emitted) : \A m \in MalformedLines :
              send_request_of(ret.data, InsertAt(ret.emitted, i, m)) = ret.result

\* A stream with a malformed line between two image events returned the urls
\* of both.
C22_Witness ==
    /\ ret.op = "send_request" /\ ret.how = "end" /\ ret.result # NoneDict
    /\ Len(ret.emitted) = 3
    /\ ret.emitted[2] \in MalformedLines
    /\ ret.emitted[1].kind = "image" /\ ret.emitted[3].kind = "image"
    /\ Len(ret.result.urls) = 4

\* C23 as stated: a success result if and only if at least one url was
\* accumulated from the stream.
C23_AsStated ==
    ret.op = "send_request" =>
        /\ ~ret.raised
        /\ ret.result # NoneDict <=> ret.image_urls # <<>>

\* C23: send_request never raises; every success result has a non-empty urls
\* sequence; a stream read to its end gives a success result if and only if
\* at least one url was accumulated; a stream that breaks or holds bytes that
\* are not UTF-8 gives the failure signal whatever was accumulated.
C23_SuccessIffUrls ==
    ret.op = "send_request" =>
        /\ ~ret.raised
        /\ ret.result # NoneDict => (ret.result.urls # <<>> /\ ret.how = "end")
        /\ ret.how = "end" => (ret.result # NoneDict <=> ret.image_urls # <<>>)
        /\ ret.how # "end" => ret.result = NoneDict

\* A stream that ended without a url and without a transport error returned
\* the failure signal although it carried events.
C23_Witness ==
    /\ ret.op = "send_request" /\ ret.how = "end"
    /\ ret.image_urls = <<>> /\ ret.result = NoneDict
    /\ \E i \in DOMAIN ret.emitted : ret.emitted[i].kind = "conversation"

\* C24: in every request send_request transmits the content of every message
\* is a string: a dict is sent as its serialization, a string is sent as it
\* was given.
C24_ContentIsString ==
    completion.pc = "reading" =>
        /\ Len(completion.sent) = Len(completion.data)
        /\ \A i \in DOMAIN completion.sent :
              /\ completion.sent[i].content.type = "str"
              /\ completion.data[i].content.type = "str" =>
                    completion.sent[i] = completion.data[i]
              /\ completion.data[i].content.type = "dict" =>
                    completion.sent[i].content = json_dumps(completion.data[i].content)

\* A request whose content was given as a string is on the wire.
C24_Witness ==
    /\ completion.pc = "reading"
    /\ completion.data # <<>>
    /\ completion.data[1].content.type = "str"
    /\ completion.sent[1].content = completion.data[1].content

\* ================================================== the maintenance actions
\* TokenManager.refresh_token, check_heartbeat and check_session_refresh, the
\* heartbeat thread of the plugin that calls the last two, and on_disable.

Interval(a) ==
    IF a = "refresh_token" THEN REFRESH_INTERVAL
    ELSE IF a = "check_heartbeat" THEN HEARTBEAT_INTERVAL
    ELSE SESSION_REFRESH_INTERVAL

\* The remote call is made whatever time has elapsed.
Due_Always(last, a, current_time) == TRUE

\* if current_time - self._last_..._time < self._..._interval: return
Due(last, a, current_time) == ~(current_time - last[a] < Interval(a))

\* The stamp is written after a failure too.
Stamp_OnFailure(last, a, current_time, success) == [last EXCEPT ![a] = current_time]

\* if success: self._last_..._time = current_time
Stamp(last, a, current_time, success) ==
    IF success THEN [last EXCEPT ![a] = current_time] ELSE last

\* What the remote call of an action can do.  send_heartbeat and init_session
\* post with timeout=10 and catch every exception; requests.get in
\* refresh_token has no timeout and may never return.
RemoteOutcomes(a) ==
    IF a = "refresh_token" THEN {"ok", "exception", "silent"}
    ELSE {"ok", "refused", "exception"}

\* What the action returns after its remote call: refresh_token returns None
\* or re-raises, the two checks return the success of the call.
MaintResult(a, outcome) ==
    IF a = "refresh_token" THEN (IF outcome = "ok" THEN "None" ELSE "raised")
    ELSE (IF outcome = "ok" THEN "True" ELSE "False")

\* What the action returns when it is not due.
NotDueResult(a) == IF a = "refresh_token" THEN "None" ELSE "True"

\* The heartbeat thread ends at the first failure.
AfterCall_FailureEndsLoop(t, a, result) ==
    IF t = Caller THEN "idle"
    ELSE IF result \in {"False", "raised"} THEN "done"
    ELSE IF a = "check_heartbeat" THEN "check_session_refresh"
    ELSE "sleep"

\* Where the thread goes on after the action.  In heartbeat_worker an
\* exception is caught and logged, and the sleep follows.
AfterCall(t, a, result) ==
    IF t = Caller THEN "idle"
    ELSE IF result = "raised" THEN "sleep"
    ELSE IF a = "check_heartbeat" THEN "check_session_refresh"
    ELSE "sleep"

\* The lock stays with the thread when the action raises.
Release_NotWhenRaised(t, result) == IF result = "raised" THEN t ELSE "free"

\* The end of `with self._lock`, on a return and on an exception alike.
Release(t, result) == "free"

\* The lock is taken without waiting for it.
LockFree_NoLock(lock) == TRUE

\* `with self._lock` waits until the lock is free.
LockFree(lock) == lock = "free"

\* Where a thread calls the action: the heartbeat thread at its place in the
\* loop, the other thread whenever it is idle.
CallsAt(t, a) ==
    IF t = Worker THEN a # "refresh_token" /\ maint.th[t].pc = a
    ELSE maint.th[t].pc = "idle"

\* The action up to its remote call: the lock, the clock and the interval.
\* When it is not due it returns and the lock is released at once.
Check(t, a) ==
    /\ CallsAt(t, a)
    /\ LockFree(maint.lock)
    /\ LET current_time == maint.clock
       IN  IF Due(maint.last, a, current_time)
           THEN maint' = [maint EXCEPT
                    !.lock = t,
                    !.th[t] = [pc |-> "calling", action |-> a,
                               current_time |-> current_time]]
           ELSE maint' = [maint EXCEPT
                    !.th[t] = [pc |-> AfterCall(t, a, NotDueResult(a)), action |-> None,
                               current_time |-> 0],
                    !.returned = [thread |-> t, action |-> a, called |-> FALSE,
                                  result |-> NotDueResult(a)]]
    /\ UNCHANGED <<media, images, now, frame, ret, plugin, upload, wire, tos, completion, signed>>

RefreshToken(t) == Check(t, "refresh_token")
CheckHeartbeat(t) == Check(t, "check_heartbeat")
CheckSessionRefresh(t) == Check(t, "check_session_refresh")

\* The remote call of the action ends: the stamp, the release of the lock and
\* the return.  A call that never answers keeps the thread and the lock.
RemoteCallReturns(t, outcome) ==
    /\ maint.th[t].pc = "calling"
    /\ outcome \in RemoteOutcomes(maint.th[t].action)
    /\ LET a == maint.th[t].action
           result == MaintResult(a, outcome)
       IN  IF outcome = "silent"
           THEN maint' = [maint EXCEPT !.th[t].pc = "blocked"]
           ELSE maint' = [maint EXCEPT
                    !.lock = Release(t, result),
                    !.last = Stamp(@, a, maint.th[t].current_time, outcome = "ok"),
                    !.th[t] = [pc |-> AfterCall(t, a, result), action |-> None,
                               current_time |-> 0],
                    !.returned = [thread |-> t, action |-> a, called |-> TRUE,
                                  result |-> result]]
    /\ UNCHANGED <<media, images, now, frame, ret, plugin, upload, wire, tos, completion, signed>>

\* while not self._stop_heartbeat
HeartbeatWorkerWhile ==
    /\ maint.th[Worker].pc = "while"
    /\ maint' = [maint EXCEPT !.th[Worker].pc =
                    IF maint.stop_heartbeat THEN "done" ELSE "check_heartbeat"]
    /\ UNCHANGED <<media, images, now, frame, ret, plugin, upload, wire, tos, completion, signed>>

\* time.sleep(60) is over.
HeartbeatWorkerSleep ==
    /\ maint.th[Worker].pc = "sleep"
    /\ maint' = [maint EXCEPT !.th[Worker].pc = "while"]
    /\ UNCHANGED <<media, images, now, frame, ret, plugin, upload, wire, tos, completion, signed>>

\* on_disable sets the stop flag.
OnDisable ==
    /\ ~maint.stop_heartbeat
    /\ maint' = [maint EXCEPT !.stop_heartbeat = TRUE]
    /\ UNCHANGED <<media, images, now, frame, ret, plugin, upload, wire, tos, completion, signed>>

\* Wall-clock time passes.
ClockSteps == {300, 7200}

ClockAdvances(dt) ==
    /\ maint.ticks < MaxTicks
    /\ maint' = [maint EXCEPT !.clock = @ + dt, !.ticks = @ + 1]
    /\ UNCHANGED <<media, images, now, frame, ret, plugin, upload, wire, tos, completion, signed>>

\* A generation or upload request is made by a handler: send_request and
\* upload_and_process_image do not touch the lock of the token manager.
Traffic ==
    /\ maint' = [maint EXCEPT !.traffic =
                    IF maint.lock = "free" THEN "lock free" ELSE "lock held"]
    /\ UNCHANGED <<media, images, now, frame, ret, plugin, upload, wire, tos, completion, signed>>

\* The steps of the heartbeat thread.
HeartbeatWorker ==
    \/ HeartbeatWorkerWhile
    \/ CheckHeartbeat(Worker)
    \/ CheckSessionRefresh(Worker)
    \/ \E outcome \in {"ok", "refused", "exception"} : RemoteCallReturns(Worker, outcome)
    \/ HeartbeatWorkerSleep

\* The plugin as it runs: its heartbeat thread, the clock and on_disable.
NextLoop ==
    \/ HeartbeatWorker
    \/ OnDisable
    \/ \E dt \in ClockSteps : ClockAdvances(dt)

\* The plugin and a thread calling the three actions directly.
NextMaint ==
    \/ NextLoop
    \/ RefreshToken(Caller)
    \/ CheckHeartbeat(Caller)
    \/ CheckSessionRefresh(Caller)
    \/ \E outcome \in {"ok", "refused", "exception", "silent"} :
          RemoteCallReturns(Caller, outcome)
    \/ Traffic

SpecMaint == Init /\ [][NextMaint]_vars

SpecLoop == Init /\ [][NextLoop]_vars /\ WF_vars(HeartbeatWorker)

\* A thread is inside the check-and-call section of an action.
InSection(t) == maint.th[t].pc \in {"calling", "blocked"}

\* A thread is where it calls an action.
CheckSite(t) == maint.th[t].pc \in MaintenanceActions \cup {"idle"}

\* The remote call of a thread is being made: its interval has elapsed since
\* the stamp of the action.
C25_State ==
    \A t \in MaintThreads :
        InSection(t) =>
            maint.th[t].current_time - maint.last[maint.th[t].action]
                >= Interval(maint.th[t].action)

\* A check either finds the interval elapsed and goes on to the remote call,
\* or finds less time elapsed and returns with the stamps and the lock as
\* they were.
C25_Step ==
    \A t \in MaintThreads :
        (CheckSite(t) /\ maint'.th[t] # maint.th[t]) =>
            IF maint'.th[t].pc = "calling"
            THEN /\ maint'.th[t].current_time = maint.clock
                 /\ maint.clock - maint.last[maint'.th[t].action]
                        >= Interval(maint'.th[t].action)
            ELSE /\ maint'.last = maint.last
                 /\ maint'.lock = maint.lock
                 /\ maint'.returned.thread = t
                 /\ ~maint'.returned.called
                 /\ maint.clock - maint.last[maint'.returned.action]
                        < Interval(maint'.returned.action)

\* C25: a maintenance action issues its remote call only when at least its
\* own interval (1800 s, 300 s, 7200 s) has elapsed since its last successful
\* run; when less time has elapsed the check returns without a remote call
\* and without changing a timestamp.
C25_CallOnlyWhenDue == [](C25_State) /\ [][C25_Step]_vars

\* An action that succeeded before is making its remote call again, and the
\* last check that returned had found less than its interval elapsed.
C25_Witness ==
    /\ \E t \in MaintThreads :
          maint.th[t].pc = "calling" /\ maint.last[maint.th[t].action] # 0
    /\ maint.returned.thread # None
    /\ ~maint.returned.called

\* The thread returns from its remote call in this step.
CallEnds(t) == maint.th[t].pc = "calling" /\ ~(maint'.th[t].pc \in {"calling", "blocked"})

C26_Step ==
    /\ \A t \in MaintThreads :
          CallEnds(t) =>
              LET a == maint.th[t].action
              IN  IF maint'.returned.result \in {"False", "raised"}
                  THEN /\ maint'.last = maint.last
                       /\ Due(maint'.last, a, maint'.clock)
                  ELSE maint'.last = [maint.last EXCEPT ![a] = maint.th[t].current_time]
    /\ \A a \in MaintenanceActions :
          maint'.last[a] # maint.last[a] =>
              \E t \in MaintThreads : CallEnds(t) /\ maint.th[t].action = a

\* C26: a maintenance action that runs and succeeds updates only its own
\* timestamp; one that runs and fails (returns false or raises) leaves the
\* three timestamps unchanged, so that its next check makes the call again;
\* no action changes the timestamp of another.
C26_OwnStampOnSuccess == [][C26_Step]_vars

\* An action has failed after another had succeeded, and is still due.
C26_Witness ==
    /\ maint.returned.called
    /\ maint.returned.result \in {"False", "raised"}
    /\ \E b \in MaintenanceActions \ {maint.returned.action} : maint.last[b] # 0
    /\ maint.last[maint.returned.action] = 0
    /\ Due(maint.last, maint.returned.action, maint.clock)

C27_State ==
    /\ Cardinality({t \in MaintThreads : InSection(t)}) <= 1
    /\ \A t \in MaintThreads : InSection(t) <=> maint.lock = t

C27_TrafficStep ==
    maint'.traffic # maint.traffic => (maint'.lock = maint.lock /\ maint'.th = maint.th)

\* C27: at most one of the three maintenance actions is in its check-and-call
\* section at any time, whatever the interleaving of the threads that call
\* them; and upload and generation calls never take the lock: they proceed
\* while a maintenance action holds it.
C27_MutualExclusion == [](C27_State) /\ [][C27_TrafficStep]_vars

\* A generation or upload request was made while a maintenance action held
\* the lock and the other thread was waiting to enter its own.
C27_Witness ==
    /\ maint.traffic = "lock held"
    /\ maint.lock = Caller
    /\ maint.th[Worker].pc = "check_heartbeat"
    /\ Due(maint.last, "check_heartbeat", maint.clock)

\* The heartbeat thread is making the remote call of the action.
Attempting(a) == maint.th[Worker].pc = "calling" /\ maint.th[Worker].action = a

\* C28: while the plugin is running each of the three maintenance actions is
\* periodic: once its interval has elapsed since its last successful run, the
\* background loop eventually attempts it again.
C28_EachActionPeriodic ==
    \A a \in MaintenanceActions :
        (Due(maint.last, a, maint.clock) /\ ~maint.stop_heartbeat)
            ~> (Attempting(a) \/ maint.stop_heartbeat)

\* A check made by the heartbeat thread has failed.
WorkerFailed ==
    /\ maint.returned.thread = Worker
    /\ maint.returned.called
    /\ maint.returned.result \in {"False", "raised"}

\* C29: the maintenance loop never ends because of a failure: after a failed
\* heartbeat or session refresh it goes on to its next iteration, and it
\* iterates until the plugin is disabled.
C29_LoopSurvivesFailures ==
    /\ [](maint.th[Worker].pc = "done" => maint.stop_heartbeat)
    /\ (WorkerFailed /\ maint.th[Worker].pc \in {"check_session_refresh", "sleep"})
          ~> (maint.th[Worker].pc = "while")
    /\ (maint.th[Worker].pc = "while" /\ ~maint.stop_heartbeat)
          ~> (maint.th[Worker].pc = "check_heartbeat" \/ maint.stop_heartbeat)

\* The heartbeat thread has begun another iteration after a session refresh
\* that failed.
C29_Witness ==
    /\ WorkerFailed
    /\ maint.returned.action = "check_session_refresh"
    /\ maint.th[Worker].pc = "check_heartbeat"
    /\ ~maint.stop_heartbeat

\* The operations of the command handlers.
HandlerOps ==
    {"generate", "edit", "outpaint", "regenerate", "reference", "inpaint", "koutu",
     "enlarge"}

\* The error replies of the handlers.
ErrorReplies ==
    {REPLY_EDIT_FAILED, REPLY_OUTPAINT_FAILED, REPLY_REGENERATE_FAILED,
     REPLY_GENERATE_FAILED, REPLY_COMMAND_FAILED, REPLY_MISSING_INFO,
     REPLY_MISSING_SESSION, REPLY_IMAGE_FAILED, REPLY_PROCESS_FAILED,
     REPLY_KOUTU_SAVE_FAILED, REPLY_UPLOAD_FAILED}

\* The operation failed fatally: the upload failed, the completion call
\* returned no image, or the store refused a duplicate id.
FatalFailure(r) ==
    /\ r.op \in HandlerOps
    /\ \/ r.reply = REPLY_UPLOAD_FAILED
       \/ (r.sent /\ ~r.completed)
       \/ r.raised = IntegrityError

C30_State == FatalFailure(ret) => ret.reply \in ErrorReplies

C30_Step == (ret' # ret /\ FatalFailure(ret')) => images' = images

\* C30: when an operation fails fatally (upload step failure, completion
\* call returning no image, duplicate id on store) the lineage store is left
\* as it was before the operation, no record of it being persisted, and the
\* user receives an error reply.
C30_FailureLeavesStore == [](C30_State) /\ [][C30_Step]_vars

\* An edit whose id was already in the store has been answered with an error.
C30_Witness ==
    /\ ret.op = "edit"
    /\ ret.raised = IntegrityError
    /\ ret.reply \in ErrorReplies
    /\ images # <<>>

\* C36: the conversation_id, section_id and reply_id send_request returns
\* all come from one event, the last that carried a conversation_id: a
\* section_id or reply_id that event lacks is returned empty, not kept from
\* an earlier event.
C36_IdsOfOneEvent ==
    (ret.op = "send_request" /\ ret.result # NoneDict
        /\ ConversationEvents(ret.emitted) # <<>>) =>
        LET ev == Last(ConversationEvents(ret.emitted))
        IN  /\ ret.result.conversation_id = ev.conversation_id
            /\ ret.result.section_id = ev.section_id
            /\ ret.result.reply_id = ev.reply_id

\* An event with the three identifiers was followed by one with a
\* conversation_id only, and the result has no section_id and no reply_id.
C36_Witness ==
    /\ ret.op = "send_request" /\ ret.result # NoneDict
    /\ LET ev == ConversationEvents(ret.emitted)
       IN  /\ Len(ev) = 2
           /\ ev[1].section_id # None /\ ev[1].reply_id # None
           /\ ev[2].section_id = None /\ ev[2].reply_id = None
    /\ ret.result.section_id = None
    /\ ret.result.reply_id = None

C38_State ==
    /\ maint.lock # "free" => (maint.lock \in MaintThreads /\ InSection(maint.lock))
    /\ (maint.returned.called /\ maint.returned.result \in {"False", "raised"}
          /\ \A t \in MaintThreads : ~InSection(t)) => maint.lock = "free"

C38_Step ==
    \A t \in MaintThreads :
        (InSection(t) /\ ~(maint'.th[t].pc \in {"calling", "blocked"})) =>
            maint'.lock = "free"

\* C38: the lock is released on every exit from a maintenance action, also
\* when refresh_token raises after a failed request: the lock is never held
\* while no maintenance action is executing, and a failed action does not
\* keep later checks out.
C38_LockReleased == [](C38_State) /\ [][C38_Step]_vars

\* After refresh_token raised in the other thread, the heartbeat thread has
\* taken the lock for its own remote call.
C38_Witness ==
    /\ maint.returned.action = "refresh_token"
    /\ maint.returned.result = "raised"
    /\ maint.lock = Worker
    /\ maint.th[Worker].pc = "calling"

\* The commands that continue a stored record.
ParentOps == {"edit", "outpaint", "regenerate"}

\* What a command requires of the record it read.
ParentUsable(op, image_data) ==
    /\ image_data # NoneDict
    /\ IF op = "regenerate"
       THEN ~Falsy(image_data.operation_params.reply_id)
       ELSE /\ ~Falsy(image_data.operation_params.conversation_id)
            /\ ~Falsy(image_data.operation_params.section_id)

ParentRefusals == {MSG_ID_NOT_FOUND, REPLY_MISSING_INFO, REPLY_MISSING_SESSION}

C34_State ==
    (ret.op \in ParentOps /\ ret.reply \in ParentRefusals) =>
        (~ret.sent /\ ~ret.completed)

C34_Step ==
    \* the request is sent only with a usable record read from the store
    /\ (handler = Idle /\ handler'.pc = "awaiting" /\ handler'.op \in ParentOps) =>
           /\ images' = images
           /\ ParentUsable(handler'.op, handler'.image_data)
           /\ get_image(images, handler'.image_data.id) = handler'.image_data
    \* a refused command stores nothing
    /\ (handler = Idle /\ handler' = Idle /\ ret'.op \in ParentOps /\ ~ret'.sent) =>
           images' = images
    \* the record stored when the request succeeded names the record read
    /\ (handler.pc = "awaiting" /\ handler.op \in ParentOps /\ handler' = Idle
          /\ ret'.op \in ParentOps /\ ret'.reply = REPLY_IMAGE) =>
           /\ Len(images') = Len(images) + 1
           /\ Last(images').parent_id = handler.image_data.id
           /\ get_image(images, handler.image_data.id) = handler.image_data

\* C34: an edit, outpaint or regenerate command reads the parent record
\* before it sends its completion request: without a usable parent (not
\* found, no conversation_id or section_id for edit and outpaint, no reply_id
\* for regenerate) nothing is sent and nothing is stored, and the record
\* stored after a successful request has the id of the record read as its
\* parent_id.
C34_ParentReadFirst == [](C34_State) /\ [][C34_Step]_vars

\* A regenerate command has read a record with a reply_id, sent its request
\* and stored the new record with that record as its parent.
C34_Witness ==
    /\ ret.op = "regenerate" /\ ret.sent /\ ret.reply = REPLY_IMAGE
    /\ Len(images) = 2
    /\ Last(images).parent_id = images[1].id
    /\ ~Falsy(images[1].operation_params.reply_id)

\* The streams that can have produced the urls of a stored record (a
\* regenerated edit keeps the first url only).
ProducedBy(row) ==
    {stream \in Streams :
        /\ row.urls # <<>>
        /\ Len(row.urls) <= Len(stream.image_urls)
        /\ row.urls = SubSeq(stream.image_urls, 1, Len(row.urls))}

\* The waiting handler stores its record in this step.
HandlerStores ==
    /\ handler.pc = "awaiting" /\ handler' = Idle
    /\ ret'.op \in HandlerOps /\ ret'.sent /\ ret'.reply = REPLY_IMAGE
    /\ Len(images') = Len(images) + 1

C35_Step(ops) ==
    (HandlerStores /\ handler.op \in ops) =>
        \E stream \in ProducedBy(Last(images')) :
            /\ Last(images').operation_params.reply_id = stream.reply_id
            /\ Last(images').operation_params.conversation_id = stream.conversation_id
            /\ Last(images').operation_params.section_id = stream.section_id

\* C35: every record stored after a successful completion call carries in
\* operation_params the reply_id, conversation_id and section_id returned by
\* the stream that produced its urls, for every operation type, a generate
\* issued when a conversation already exists included.
C35_RecordCarriesCallIds == [][C35_Step(HandlerOps)]_vars

\* ------------------------------------ the image processor: combine_images
\* line_width = 10
LINE_WIDTH == 10

Size(w, h) == [width |-> w, height |-> h]

\* The sides of the first downloaded image, and the size of every other one.
Sides == (1..MaxSide) \cup {LargeSide}

OtherSize == Size(4, 3)

\* Python's int() of a quotient of integers: truncation towards zero.
PyInt(a, b) == IF a >= 0 THEN a \div b ELSE -((-a) \div b)

\* Python's a // b for b > 0: the floor.
PyFloorDiv(a, b) == a \div b

\* A region of the canvas that a paste call writes.
Tile(x, y, w, h) == [x |-> x, y |-> y, width |-> w, height |-> h]

\* Image.resize raises ValueError for a side below 1.
ResizeRaises(w, h) == w < 1 \/ h < 1

CombineFailed == [ok |-> FALSE]

Combined(canvas, tiles) == [ok |-> TRUE, canvas |-> canvas, tiles |-> tiles]

\* One image: it is saved as it is.
CombineSingle(imgs) ==
    Combined(Size(imgs[1].width, imgs[1].height),
             <<Tile(0, 0, imgs[1].width, imgs[1].height)>>)

\* Two images side by side.  The quotients of the code are floats; they are
\* taken exactly here.
CombineTwo(imgs) ==
    LET base_width == imgs[1].width
        widest == IF imgs[1].width * imgs[2].height >= imgs[2].width * imgs[1].height
                  THEN imgs[1] ELSE imgs[2]
        target_height == PyInt((base_width + LINE_WIDTH) * widest.height, 2 * widest.width)
        total_width == base_width
        target_width == PyFloorDiv(total_width - LINE_WIDTH, 2)
        Fit(img) ==
            LET w0 == PyInt(target_height * img.width, img.height)
                new_width == IF w0 > target_width THEN target_width ELSE w0
                new_height == IF w0 > target_width
                              THEN PyInt(new_width * img.height, img.width)
                              ELSE target_height
            IN Size(new_width, new_height)
        Pasted(i) ==
            LET f == Fit(imgs[i + 1])
            IN Tile(i * (target_width + LINE_WIDTH) + PyFloorDiv(target_width - f.width, 2),
                    PyFloorDiv(target_height - f.height, 2), f.width, f.height)
    IN IF \E i \in 1..2 : ResizeRaises(Fit(imgs[i]).width, Fit(imgs[i]).height)
       THEN CombineFailed
       ELSE Combined(Size(total_width, target_height), <<Pasted(0), Pasted(1)>>)

\* The canvas leaving out the column of small tiles that has no image.
CanvasOf34_FitsImages(imgs) ==
    LET base_width == imgs[1].width
        base_height == imgs[1].height
        small_width == PyInt(base_width, 3)
    IN Size(base_width + small_width + LINE_WIDTH,
            IF Len(imgs) > 3 THEN base_height ELSE base_height - 1)

\* The canvas of the 3:1 layout.
CanvasOf34(imgs) ==
    LET base_width == imgs[1].width
        base_height == imgs[1].height
        small_width == PyInt(base_width, 3)
    IN Size(base_width + small_width + LINE_WIDTH, base_height)

\* Three images or more: the first at the left, three small tiles at the
\* right, a white tile where there is no image.
CombineThreeToOne(imgs) ==
    LET base_width == imgs[1].width
        base_height == imgs[1].height
        small_width == PyInt(base_width, 3)
        small_height == PyInt(base_height, 3)
        Small(i) == Tile(base_width + LINE_WIDTH, (i - 1) * (small_height + LINE_WIDTH),
                         small_width, small_height)
    IN IF ResizeRaises(small_width, small_height)
       THEN CombineFailed
       ELSE Combined(CanvasOf34(imgs),
                     <<Tile(0, 0, base_width, base_height), Small(1), Small(2), Small(3)>>)

\* combine_images once the downloads are over.
combine_images(imgs) ==
    IF imgs = <<>> THEN CombineFailed
    ELSE IF Len(imgs) = 1 THEN CombineSingle(imgs)
    ELSE IF Len(imgs) = 2 THEN CombineTwo(imgs)
    ELSE CombineThreeToOne(imgs)

\* The downloads of a call: which urls gave an image.
Downloads == UNION {[1..n -> BOOLEAN] : n \in 0..MaxDownloads}

RECURSIVE Downloaded(_, _)
\* The images list: the first image downloaded has the size `first`.
Downloaded(downloads, first) ==
    IF downloads = <<>> THEN <<>>
    ELSE LET rest == Downloaded(SubSeq(downloads, 1, Len(downloads) - 1), first)
         IN IF ~Last(downloads) THEN rest
            ELSE IF rest = <<>> THEN <<first>>
            ELSE Append(rest, OtherSize)

CombineImages(downloads, first) ==
    /\ combine' = [called |-> TRUE, downloads |-> downloads,
                   images |-> Downloaded(downloads, first),
                   result |-> combine_images(Downloaded(downloads, first))]
    /\ UNCHANGED <<images, now, frame, ret, plugin, upload, wire, tos, completion, signed,
                   maint, mask, dialogue>>

NextCombine ==
    \E downloads \in Downloads, w \in Sides, h \in Sides :
        CombineImages(downloads, Size(w, h))

SpecCombine == Init /\ [][NextCombine]_vars

\* C33: combine_images gives a canvas of the same width and height for three
\* downloaded images as for four with the same first image, and it fails
\* when no image was downloaded.
C33_ThreeLikeFour ==
    combine.called =>
        /\ combine.images = <<>> => ~combine.result.ok
        /\ Len(combine.images) = 3 =>
              LET four == combine_images(Append(combine.images, OtherSize))
              IN /\ four.ok = combine.result.ok
                 /\ combine.result.ok => four.canvas = combine.result.canvas

\* Three of four urls gave an image and the combined image was produced.
C33_Witness ==
    /\ combine.called
    /\ Len(combine.downloads) = 4
    /\ Len(combine.images) = 3
    /\ combine.result.ok
    /\ combine.images[1].height = LargeSide

Inside(tile, canvas) ==
    /\ tile.x >= 0 /\ tile.y >= 0
    /\ tile.x + tile.width <= canvas.width
    /\ tile.y + tile.height <= canvas.height

\* C39: in the layout for three or four images every pasted tile lies inside
\* the canvas of size (base_width + base_width div 3 + 10, base_height), for
\* every size of the first image.
C39_TilesInsideCanvas ==
    (combine.called /\ Len(combine.images) >= 3 /\ combine.result.ok) =>
        /\ combine.result.canvas =
              Size(combine.images[1].width + (combine.images[1].width \div 3) + 10,
                   combine.images[1].height)
        /\ \A i \in 1..Len(combine.result.tiles) :
              Inside(combine.result.tiles[i], combine.result.canvas)

\* ------------------------------------------ the image processor: masks
\* cv2.contourArea(c) > 50
MIN_CONTOUR_AREA == 50

\* The 3 x 3 kernel of the morphological opening: a difference smaller than
\* the kernel is removed as noise.
KERNEL_AREA == 9

WHITE == 255

\* A picture is its shape and the places where it differs from the original
\* by more than the threshold, each place named by its area in pixels; cell
\* 0 stands for the rest of the picture.
RegionAreas == {4, 30, 60, 200}

Cells == RegionAreas \cup {0}

Shapes == {<<8, 8>>, <<8, 16>>}

DEFAULT_SHAPE == <<512, 512>>

Picture(shape, marks, resizable) ==
    [kind |-> "picture", shape |-> shape, marks |-> marks, resizable |-> resizable]

\* Bytes cv2.imdecode raises on (an empty buffer) and bytes it returns None for.
EmptyBytes == [kind |-> "empty"]

UndecodableBytes_ == [kind |-> "undecodable"]

OriginalInputs ==
    {EmptyBytes, UndecodableBytes_} \cup {Picture(sh, {}, TRUE) : sh \in Shapes}

MarkedInputs ==
    {EmptyBytes, UndecodableBytes_}
    \cup {Picture(sh, m, r) : sh \in Shapes, m \in SUBSET RegionAreas, r \in BOOLEAN}

\* The data url a mask function returns: the PNG of an image of this mode and
\* shape with these pixel values.
EncodedMask(mode, shape, px) == [mode |-> mode, shape |-> shape, px |-> px]

NoMask == [mode |-> "none"]

MaskOutcome(m, raised) == [mask |-> m, raised |-> raised]

\* _black_mask
black_mask(shape) == EncodedMask("L", shape, [c \in Cells |-> 0])

\* cv2.bitwise_not on the pixel values.
bitwise_not(px) == [c \in Cells |-> WHITE - px[c]]

\* _dynamic_color_mask: threshold of the difference, closing, opening.
dynamic_color_mask(marked_cv) ==
    [c \in Cells |-> IF c \in marked_cv.marks /\ c >= KERNEL_AREA THEN WHITE ELSE 0]

\* The external contours of a mask and the largest one above the area limit
\* (0 when there is none).
Contours(px) == {c \in RegionAreas : px[c] = WHITE}

MainContour(contours) ==
    LET valid == {c \in contours : c > MIN_CONTOUR_AREA}
    IN IF valid = {} THEN 0 ELSE CHOOSE c \in valid : \A o \in valid : o <= c

\* The except clause of both mask functions:
\* _black_mask(orig_cv.shape if 'orig_cv' in locals() else (512,512,3)).
MaskExcept(orig_assigned, orig) ==
    IF ~orig_assigned THEN MaskOutcome(black_mask(DEFAULT_SHAPE), None)
    ELSE IF orig.kind = "undecodable" THEN MaskOutcome(NoMask, "AttributeError")
    ELSE MaskOutcome(black_mask(orig.shape), None)

\* The body both functions share after decoding: the shapes are compared,
\* the marked picture is resized, the difference mask is computed.
NeedsResize(orig, marked) == orig.shape # marked.shape

\* create_mask_from_circle_selection(original_image_bytes, marked_image_bytes, invert)
create_mask_from_circle_selection(orig, marked, invert) ==
    IF marked.kind = "empty" THEN MaskExcept(FALSE, orig)
    ELSE IF orig.kind = "empty" THEN MaskExcept(FALSE, orig)
    ELSE IF orig.kind = "undecodable" \/ marked.kind = "undecodable"
    THEN MaskExcept(TRUE, orig)
    ELSE IF NeedsResize(orig, marked) /\ ~marked.resizable THEN MaskExcept(TRUE, orig)
    ELSE LET mask0 == dynamic_color_mask(marked)
             contours == Contours(mask0)
             main_contour == MainContour(contours)
             drawn == [c \in Cells |-> IF c = main_contour THEN WHITE ELSE 0]
         IN IF contours = {} THEN MaskOutcome(black_mask(orig.shape), None)
            ELSE IF main_contour = 0 THEN MaskOutcome(black_mask(orig.shape), None)
            ELSE MaskOutcome(EncodedMask("RGB", orig.shape,
                                         IF invert THEN bitwise_not(drawn) ELSE drawn),
                             None)

\* create_mask_from_marked_image(original_image_bytes, marked_image_bytes)
create_mask_from_marked_image(orig, marked) ==
    IF orig.kind = "empty" THEN MaskExcept(FALSE, orig)
    ELSE IF marked.kind = "empty" THEN MaskExcept(TRUE, orig)
    ELSE IF orig.kind = "undecodable" \/ marked.kind = "undecodable"
    THEN MaskExcept(TRUE, orig)
    ELSE IF NeedsResize(orig, marked) /\ ~marked.resizable THEN MaskExcept(TRUE, orig)
    ELSE MaskOutcome(EncodedMask("RGB", orig.shape, dynamic_color_mask(marked)), None)

MaskModes == {"circle", "brush"}

\* The mask creation of _process_inpaint: both functions are called with the
\* keyword invert, which create_mask_from_marked_image does not have.
MaskOfMode(mode, orig, marked, is_invert) ==
    IF mode = "circle"
    THEN create_mask_from_circle_selection(orig, marked, is_invert)
    ELSE MaskOutcome(NoMask, "TypeError")

MaskCall(site, mode, orig, marked, is_invert, outcome) ==
    [called |-> TRUE, site |-> site, mode |-> mode, original |-> orig,
     marked |-> marked, is_invert |-> is_invert, outcome |-> outcome]

\* _process_inpaint creates the mask for the mode of the user's command.
ProcessInpaintMask(mode, orig, marked, is_invert) ==
    /\ mask' = MaskCall("_process_inpaint", mode, orig, marked, is_invert,
                        MaskOfMode(mode, orig, marked, is_invert))
    /\ UNCHANGED <<images, now, frame, ret, plugin, upload, wire, tos, completion, signed,
                   maint, combine, dialogue>>

\* The brush function called with the arguments it has.
CreateMaskFromMarkedImage(orig, marked) ==
    /\ mask' = MaskCall("create_mask_from_marked_image", "brush", orig, marked, FALSE,
                        create_mask_from_marked_image(orig, marked))
    /\ UNCHANGED <<images, now, frame, ret, plugin, upload, wire, tos, completion, signed,
                   maint, combine, dialogue>>

NextMask ==
    \/ \E mode \in MaskModes, orig \in OriginalInputs, marked \in MarkedInputs,
          is_invert \in BOOLEAN : ProcessInpaintMask(mode, orig, marked, is_invert)
    \/ \E orig \in OriginalInputs, marked \in MarkedInputs :
          CreateMaskFromMarkedImage(orig, marked)

SpecMask == Init /\ [][NextMask]_vars

\* C31: both mask algorithms accept the invert flag, and for every input pair
\* the mask made with invert = true is the bitwise complement of the mask
\* made with invert = false, also when no contour or difference is found.
C31_InvertIsComplement ==
    (mask.called /\ mask.site = "_process_inpaint") =>
        LET inverted == MaskOfMode(mask.mode, mask.original, mask.marked, TRUE)
            plain == MaskOfMode(mask.mode, mask.original, mask.marked, FALSE)
        IN /\ inverted.raised = None /\ plain.raised = None
           /\ inverted.mask.px = bitwise_not(plain.mask.px)

\* A stage of the mask generation fails for these inputs.
MaskStageFails(fn, orig, marked) ==
    \/ orig.kind # "picture"
    \/ marked.kind # "picture"
    \/ (NeedsResize(orig, marked) /\ ~marked.resizable)
    \/ (fn = "circle" /\ MainContour(Contours(dynamic_color_mask(marked))) = 0)

\* The mask function of the call was entered.
MaskFunctionRan ==
    /\ mask.called
    /\ mask.site = "create_mask_from_marked_image" \/ mask.mode = "circle"

\* C32: mask generation never propagates an error: when a stage fails (a
\* picture cannot be decoded, the sizes cannot be reconciled, no contour is
\* found) both mask functions return a well-formed all-zero mask.
C32_MaskNeverRaises ==
    MaskFunctionRan =>
        /\ mask.outcome.raised = None
        /\ MaskStageFails(mask.mode, mask.original, mask.marked) =>
              /\ mask.outcome.mask.mode \in {"L", "RGB"}
              /\ \A c \in Cells : mask.outcome.mask.px[c] = 0

\* --------------------------------------------- the two-image inpaint dialogue
\* The text after the command word ("" when there is none) and the pictures
\* users send (None when _get_image_data cannot read the picture).
PromptTexts == {"", "p1", "p2"}

PictureData == {"a", "b"}

Handled(event, user, taken, original, marked, prompt) ==
    [event |-> event, user |-> user, taken |-> taken, original |-> original,
     marked |-> marked, prompt |-> prompt]

\* A text message starting with an inpaint command word.
InpaintCommand(user, prompt) ==
    /\ dialogue' =
          IF prompt = ""
          THEN [dialogue EXCEPT !.last = Handled("inpaint_command", user, "refused",
                                                 None, None, prompt)]
          ELSE [dialogue EXCEPT !.waiting_for_inpaint = @ \cup {user},
                                !.inpaint_prompts[user] = prompt,
                                !.last = Handled("inpaint_command", user, "command",
                                                 None, None, prompt)]
    /\ UNCHANGED <<images, now, frame, ret, plugin, upload, wire, tos, completion, signed,
                   maint, combine, mask>>

\* A reference-image, koutu or change-background command: the user's next
\* picture is for it.
ReferenceCommand(user) ==
    /\ dialogue' = [dialogue EXCEPT !.waiting_for_reference = @ \cup {user},
                                    !.last = Handled("reference_command", user, "command",
                                                     None, None, None)]
    /\ UNCHANGED <<images, now, frame, ret, plugin, upload, wire, tos, completion, signed,
                   maint, combine, mask>>

\* A picture message.  image_data is None when the picture cannot be read;
\* the outcome of _process_inpaint does not change what the finally clause
\* removes.
ImageMessage(user, image_data) ==
    /\ dialogue' =
          IF user \in dialogue.waiting_for_reference
          THEN [dialogue EXCEPT !.waiting_for_reference = @ \ {user},
                                !.last = Handled("image", user,
                                                 IF image_data = None THEN "unreadable"
                                                 ELSE "reference", None, None, None)]
          ELSE IF user \notin dialogue.waiting_for_inpaint
          THEN [dialogue EXCEPT !.last = Handled("image", user, "ignored", None, None, None)]
          ELSE IF image_data = None
          THEN [dialogue EXCEPT !.last = Handled("image", user, "unreadable", None, None, None)]
          ELSE IF dialogue.inpaint_images[user] = None
          THEN [dialogue EXCEPT !.inpaint_images[user] = image_data,
                                !.last = Handled("image", user, "original", image_data,
                                                 None, dialogue.inpaint_prompts[user])]
          ELSE [dialogue EXCEPT !.waiting_for_inpaint = @ \ {user},
                                !.inpaint_prompts[user] = None,
                                !.inpaint_images[user] = None,
                                !.last = Handled("image", user, "marked",
                                                 dialogue.inpaint_images[user], image_data,
                                                 dialogue.inpaint_prompts[user])]
    /\ UNCHANGED <<images, now, frame, ret, plugin, upload, wire, tos, completion, signed,
                   maint, combine, mask>>

NextDialogue ==
    \/ \E user \in Users, prompt \in PromptTexts : InpaintCommand(user, prompt)
    \/ \E user \in Users : ReferenceCommand(user)
    \/ \E user \in Users, image_data \in PictureData \cup {None} :
          ImageMessage(user, image_data)

SpecDialogue == Init /\ [][NextDialogue]_vars

C37_State ==
    \* an accepted inpaint command leaves no original of an earlier command
    /\ (dialogue.last.event = "inpaint_command" /\ dialogue.last.taken = "command") =>
          /\ dialogue.last.user \in dialogue.waiting_for_inpaint
          /\ dialogue.inpaint_images[dialogue.last.user] = None
    \* after the marked picture the three entries of the user are gone
    /\ (dialogue.last.event = "image" /\ dialogue.last.taken = "marked") =>
          /\ dialogue.last.user \notin dialogue.waiting_for_inpaint
          /\ dialogue.inpaint_prompts[dialogue.last.user] = None
          /\ dialogue.inpaint_images[dialogue.last.user] = None

C37_Step ==
    \A user \in Users :
        \* the picture that follows the user's command is the original
        /\ (/\ dialogue.last.event = "inpaint_command" /\ dialogue.last.taken = "command"
            /\ dialogue.last.user = user
            /\ user \notin dialogue.waiting_for_reference
            /\ dialogue'.last.event = "image" /\ dialogue'.last.user = user
            /\ dialogue'.last.taken # "unreadable") =>
               /\ dialogue'.last.taken = "original"
               /\ dialogue'.inpaint_images[user] = dialogue'.last.original
        \* the picture after the original is the marked one, for that original
        /\ (/\ dialogue.last.event = "image" /\ dialogue.last.taken = "original"
            /\ dialogue.last.user = user
            /\ user \notin dialogue.waiting_for_reference
            /\ dialogue'.last.event = "image" /\ dialogue'.last.user = user
            /\ dialogue'.last.taken # "unreadable") =>
               /\ dialogue'.last.taken = "marked"
               /\ dialogue'.last.original = dialogue.last.original

\* C37: after an inpaint command the user's next picture is taken as the
\* original and the one after it as the marked picture; a new inpaint command
\* discards an original held from an earlier command; after the marked
\* picture has been processed the user's entries in waiting_for_inpaint,
\* inpaint_prompts and inpaint_images are removed.
C37_InpaintDialogue == [](C37_State) /\ [][C37_Step]_vars

====
